---- MODULE Spec2Model ----
(***************************************************************************)
(* Model of the WAuto backend's contact directory, send-command parser and *)
(* recipient resolver.                                                     *)
(*                                                                         *)
(* Python strings are modelled as sequences of one-character strings, so   *)
(* that strip(), lower(), isdigit(), endswith(), slicing and the regular   *)
(* expressions are computed character by character.  Python's None is the  *)
(* value NoneVal.  A Python dict is a sequence of records in insertion     *)
(* order (iteration order of dict.items()).                                *)
(***************************************************************************)
EXTENDS Integers, Sequences, FiniteSets, TLC

VARIABLES
    contacts,      \* ContactService.contacts: <<[key, name, user_defined]>> in insertion order
    disk,          \* content of contacts.json: [ok |-> BOOLEAN, entries |-> <<...>>]
    last,          \* the last directory operation: its name, arguments, return value, write
    failedWrites,  \* number of failed _save_contacts so far
    track,         \* progress of the scenario learn(new number) -> set_name -> learn
    req,           \* the webhook requests in flight: req[t] is the state of task t
    running,       \* the task the event loop is running, 0 when it is idle
    command,       \* the send command typed so far
    cmdTail,       \* the end of the command, appended when it is submitted
    nTokens,       \* number of tokens typed into command
    parsed,        \* result of _parse_send_command, NotParsed before the call
    aliases,       \* the alias map handed to the resolver, in insertion order
    target,        \* the recipient string handed to the resolver
    resolved,      \* what the two resolvers returned, Unresolved before the call
    store,         \* the Conversation Store's collection: records in insertion order
    sends,         \* the WhatsApp send attempts made so far: [to, text, ok]
    out,           \* what the last operation returned to its caller, or that it raised
    now,           \* the clock, epoch milliseconds
    history,       \* AIAgentContext.conversation_history
    agents,        \* the agent requests in flight: agents[t] is the state of task t
    active,        \* the agent task the event loop is running, 0 when it runs none
    chats          \* number of agent requests handled one after the other

dirVars == <<contacts, disk, last, failedWrites, track>>

raceVars == <<req, running>>

parseVars == <<command, cmdTail, nTokens, parsed>>

resolveVars == <<aliases, target, resolved>>

agentVars == <<store, sends, out, now, history, agents, active, chats>>

vars == <<contacts, disk, last, failedWrites, track, req, running,
          command, cmdTail, nTokens, parsed, aliases, target, resolved,
          store, sends, out, now, history, agents, active, chats>>

(***************************************************************************)
(* Bounds of the model.                                                    *)
(***************************************************************************)
MaxFailedWrites == 2

\* number of concurrent webhook requests
NumRequests == 2

\* number of tokens typed between the head and the tail of a send command
MaxTokens == 3

\* number of entries of the alias map
MaxAliases == 3

\* number of WhatsApp send attempts
MaxSends == 2

\* number of agent requests in flight
NumAgents == 2

\* number of records added to the Conversation Store in one run
MaxAppends == 1

\* number of milliseconds the clock advances
MaxTicks == 1

\* number of agent requests handled one after the other
MaxChats == 1

(***************************************************************************)
(* Characters and strings.                                                 *)
(***************************************************************************)
NoneVal == <<"<None>">>

Digits == {"0", "1", "2", "3", "4", "5", "6", "7", "8", "9"}

Whitespace == {" ", "\t", "\n"}

\* str.isdigit() on one character
isdigit(ch) == ch \in Digits

\* truthiness of a str-or-None value: None and "" are falsy
Truthy(s) == s # NoneVal /\ s # <<>>

RECURSIVE lstrip(_)
lstrip(s) ==
    IF s = <<>> THEN <<>>
    ELSE IF Head(s) \in Whitespace THEN lstrip(Tail(s)) ELSE s

RECURSIVE rstrip(_)
rstrip(s) ==
    IF s = <<>> THEN <<>>
    ELSE IF s[Len(s)] \in Whitespace THEN rstrip(SubSeq(s, 1, Len(s) - 1)) ELSE s

\* str.strip()
strip(s) == rstrip(lstrip(s))

\* str.lower() on one character
LowerMap ==
    "A" :> "a" @@ "B" :> "b" @@ "D" :> "d" @@ "E" :> "e" @@ "H" :> "h" @@
    "J" :> "j" @@ "N" :> "n" @@ "O" :> "o" @@ "S" :> "s" @@ "T" :> "t" @@
    "Y" :> "y" @@ "Z" :> "z"

lowerChar(ch) == IF ch \in DOMAIN LowerMap THEN LowerMap[ch] ELSE ch

\* str.lower()
lower(s) == [i \in 1..Len(s) |-> lowerChar(s[i])]

\* s[-n:]
LastN(s, n) == IF Len(s) <= n THEN s ELSE SubSeq(s, Len(s) - n + 1, Len(s))

\* s.endswith(suffix)
endswith(s, suffix) ==
    /\ Len(suffix) <= Len(s)
    /\ SubSeq(s, Len(s) - Len(suffix) + 1, Len(s)) = suffix

\* the element of a set of one element
Only(S) == CHOOSE x \in S : TRUE

(***************************************************************************)
(* dict operations, insertion-ordered.                                     *)
(***************************************************************************)
Keys(d) == {d[i].key : i \in 1..Len(d)}

HasKey(d, k) == k \in Keys(d)

IndexOf(d, k) == CHOOSE i \in 1..Len(d) : d[i].key = k

Entry(d, k) == d[IndexOf(d, k)]

\* d[k] = {"name": name, "user_defined": ud}: in place for a present key, appended otherwise
DictSet(d, k, name, ud) ==
    LET e == [key |-> k, name |-> name, user_defined |-> ud]
    IN  IF HasKey(d, k) THEN [d EXCEPT ![IndexOf(d, k)] = e] ELSE Append(d, e)

\* del d[k]
DictDel(d, k) ==
    LET i == IndexOf(d, k)
    IN  SubSeq(d, 1, i - 1) \o SubSeq(d, i + 1, Len(d))

(***************************************************************************)
(* ContactService                                                          *)
(***************************************************************************)
SuffixLen == 10

\* _normalize_phone: "" for a falsy phone, else its digits in order
RECURSIVE KeepDigits(_)
KeepDigits(s) ==
    IF s = <<>> THEN <<>>
    ELSE IF isdigit(Head(s)) THEN <<Head(s)>> \o KeepDigits(Tail(s))
    ELSE KeepDigits(Tail(s))

normalize_phone(phone) == IF ~Truthy(phone) THEN <<>> ELSE KeepDigits(phone)

\* _load_contacts on a file this service wrote: keys normalized, entries with an
\* empty normalized key skipped, user_defined forced to True; {} when the file is
\* missing or unreadable.  A later entry with the same normalized key overwrites.
RECURSIVE LoadEntries(_, _)
LoadEntries(raw, acc) ==
    IF raw = <<>> THEN acc
    ELSE LET nk == normalize_phone(Head(raw).key)
         IN  IF nk = <<>> THEN LoadEntries(Tail(raw), acc)
             ELSE LoadEntries(Tail(raw),
                              DictSet(acc, nk,
                                      IF Truthy(Head(raw).name) THEN Head(raw).name ELSE <<>>,
                                      TRUE))

load_contacts(file) == IF file.ok THEN LoadEntries(file.entries, <<>>) ELSE <<>>

\* mutant: the suffix rule never finds an entry
FirstSuffixMatch_never(d, suffix) == 0

\* index of the first entry, in insertion order, whose key ends with suffix; 0 if none
FirstSuffixMatch(d, suffix) ==
    IF \E i \in 1..Len(d) : endswith(d[i].key, suffix)
    THEN CHOOSE i \in 1..Len(d) :
            /\ endswith(d[i].key, suffix)
            /\ \A j \in 1..(i - 1) : ~endswith(d[j].key, suffix)
    ELSE 0

\* get_contact_name
get_contact_name(d, phone_number) ==
    LET nk == normalize_phone(phone_number)
        m  == FirstSuffixMatch(d, LastN(nk, SuffixLen))
    IN  IF nk = <<>> THEN phone_number
        ELSE IF HasKey(d, nk)
             THEN (IF Truthy(Entry(d, nk).name) THEN Entry(d, nk).name ELSE phone_number)
        ELSE IF m # 0
             THEN (IF Truthy(d[m].name) THEN d[m].name ELSE phone_number)
        ELSE phone_number

\* mutant: set_contact_name stores the name without marking it user-defined
set_contact_name_unmarked(d, phone_number, name) ==
    LET nk == normalize_phone(phone_number)
    IN  IF Truthy(name) /\ strip(name) # <<>>
        THEN IF nk = <<>>
             THEN [contacts |-> d, write |-> FALSE]
             ELSE [contacts |-> DictSet(d, nk, strip(name), FALSE), write |-> TRUE]
        ELSE [contacts |-> d, write |-> FALSE]

\* set_contact_name: the directory afterwards and whether _save_contacts ran
set_contact_name(d, phone_number, name) ==
    LET nk == normalize_phone(phone_number)
    IN  IF Truthy(name) /\ strip(name) # <<>>
        THEN IF nk = <<>>
             THEN [contacts |-> d, write |-> FALSE]
             ELSE [contacts |-> DictSet(d, nk, strip(name), TRUE), write |-> TRUE]
        ELSE [contacts |-> d, write |-> FALSE]

\* mutant: remove_contact_name deletes the entry and does not save
remove_contact_name_unsaved(d, phone_number) ==
    LET nk == normalize_phone(phone_number)
    IN  IF nk # <<>> /\ HasKey(d, nk)
        THEN [contacts |-> DictDel(d, nk), write |-> FALSE]
        ELSE [contacts |-> d, write |-> FALSE]

\* remove_contact_name: the directory afterwards and whether _save_contacts ran
remove_contact_name(d, phone_number) ==
    LET nk == normalize_phone(phone_number)
    IN  IF nk # <<>> /\ HasKey(d, nk)
        THEN [contacts |-> DictDel(d, nk), write |-> TRUE]
        ELSE [contacts |-> d, write |-> FALSE]

\* mutant: an exact match takes the profile name when the webhook carries one
update_contact_from_webhook_overwrite(d, phone_number, webhook_name) ==
    LET nk == normalize_phone(phone_number)
        m  == FirstSuffixMatch(d, LastN(nk, SuffixLen))
        wn == Truthy(webhook_name) /\ strip(webhook_name) # <<>>
    IN  IF HasKey(d, nk)
        THEN IF wn
             THEN [contacts |-> DictSet(d, nk, strip(webhook_name), Entry(d, nk).user_defined),
                   ret |-> strip(webhook_name), rule |-> 1, write |-> TRUE]
             ELSE [contacts |-> d, ret |-> Entry(d, nk).name, rule |-> 1, write |-> FALSE]
        ELSE IF m # 0
        THEN [contacts |-> DictSet(d, nk, d[m].name, d[m].user_defined),
              ret |-> d[m].name, rule |-> 2, write |-> TRUE]
        ELSE IF wn
        THEN [contacts |-> DictSet(d, nk, strip(webhook_name), FALSE),
              ret |-> strip(webhook_name), rule |-> 3, write |-> TRUE]
        ELSE [contacts |-> d, ret |-> phone_number, rule |-> 4, write |-> FALSE]

\* mutant: the alias entry is always marked user-defined
update_contact_from_webhook_alias_marked(d, phone_number, webhook_name) ==
    LET nk == normalize_phone(phone_number)
        m  == FirstSuffixMatch(d, LastN(nk, SuffixLen))
    IN  IF HasKey(d, nk)
        THEN [contacts |-> d, ret |-> Entry(d, nk).name, rule |-> 1, write |-> FALSE]
        ELSE IF m # 0
        THEN [contacts |-> DictSet(d, nk, d[m].name, TRUE),
              ret |-> d[m].name, rule |-> 2, write |-> TRUE]
        ELSE IF Truthy(webhook_name) /\ strip(webhook_name) # <<>>
        THEN [contacts |-> DictSet(d, nk, strip(webhook_name), FALSE),
              ret |-> strip(webhook_name), rule |-> 3, write |-> TRUE]
        ELSE [contacts |-> d, ret |-> phone_number, rule |-> 4, write |-> FALSE]

\* update_contact_from_webhook: directory afterwards, returned name, the rule
\* that decided, and whether _save_contacts ran
update_contact_from_webhook(d, phone_number, webhook_name) ==
    LET nk == normalize_phone(phone_number)
        m  == FirstSuffixMatch(d, LastN(nk, SuffixLen))
    IN  IF HasKey(d, nk)
        THEN [contacts |-> d, ret |-> Entry(d, nk).name, rule |-> 1, write |-> FALSE]
        ELSE IF m # 0
        THEN [contacts |-> DictSet(d, nk, d[m].name, d[m].user_defined),
              ret |-> d[m].name, rule |-> 2, write |-> TRUE]
        ELSE IF Truthy(webhook_name) /\ strip(webhook_name) # <<>>
        THEN [contacts |-> DictSet(d, nk, strip(webhook_name), FALSE),
              ret |-> strip(webhook_name), rule |-> 3, write |-> TRUE]
        ELSE [contacts |-> d, ret |-> phone_number, rule |-> 4, write |-> FALSE]

\* _save_contacts: the file afterwards, and whether an exception leaves the
\* function.  "ok": the dump succeeded.  A failure is caught and logged:
\* "unchanged" when open() failed, "corrupt" when the file was truncated by
\* open(..., 'w') and the dump did not complete.
save_contacts(file, d, outcome) ==
    IF outcome = "ok" THEN [file |-> [ok |-> TRUE, entries |-> d], raised |-> FALSE]
    ELSE IF outcome = "unchanged" THEN [file |-> file, raised |-> FALSE]
    ELSE [file |-> [ok |-> FALSE, entries |-> <<>>], raised |-> FALSE]

(***************************************************************************)
(* Inputs of the directory operations.                                     *)
(***************************************************************************)
\* "006581234567": the number with an international 00 prefix (12 digits)
PhoneD == <<"0", "0", "6", "5", "8", "1", "2", "3", "4", "5", "6", "7">>

\* "6581234567": country code 65 and an 8-digit national number (10 digits)
PhoneA == <<"6", "5", "8", "1", "2", "3", "4", "5", "6", "7">>

\* "+65 8123-4567": PhoneA as a person writes it
PhoneFmt == <<"+", "6", "5", " ", "8", "1", "2", "3", "-", "4", "5", "6", "7">>

\* "81234567": the national number alone (8 digits)
PhoneB == <<"8", "1", "2", "3", "4", "5", "6", "7">>

\* phone arguments: three writings of one number
Phones == {PhoneD, PhoneFmt, PhoneB}

\* phone arguments of the durability specification: a number and a missing
\* number (None)
DurablePhones == {PhoneFmt, NoneVal}

NameAl == <<"A", "l">>

NameAlPadded == <<" ", "A", "l", " ">>

NameZed == <<"Z", "e", "d">>

NameBlank == <<" ", " ">>

\* names a user passes to set_contact_name
UserNames == {NameAlPadded, NameBlank}

\* profile names a webhook payload carries (None when it has no contacts block)
WebhookNames == {NameZed, NoneVal}

\* contacts.json as the process finds it at start: missing, or written by an
\* earlier run that had learned a profile name
InitialFiles ==
    { [ok |-> TRUE, entries |-> <<>>],
      [ok |-> TRUE, entries |-> <<[key |-> PhoneA, name |-> NameZed, user_defined |-> FALSE]>>] }

SaveOutcomes == {"ok", "unchanged", "corrupt"}

Idle == [nk |-> <<>>, stage |-> "idle", name |-> <<>>]

(***************************************************************************)
(* The scenario monitor: a learn that created an entry for a wholly new    *)
(* number, then set_name on that number, then learn on that number again.  *)
(***************************************************************************)
TrackLearn(t, nk, r) ==
    IF r.rule = 3 THEN [nk |-> nk, stage |-> "learned", name |-> r.ret]
    ELSE IF t.nk = nk /\ t.stage \in {"renamed", "relearned"}
         THEN [t EXCEPT !.stage = "relearned"]
    ELSE t

TrackSet(t, nk, r, name) ==
    IF r.write /\ t.stage # "idle" /\ t.nk = nk
    THEN [nk |-> nk, stage |-> "renamed", name |-> strip(name)]
    ELSE t

TrackRemove(t, nk, r) == IF r.write /\ t.nk = nk THEN Idle ELSE t

(***************************************************************************)
(* The directory's operations as steps.  A step that calls _save_contacts  *)
(* takes one of its outcomes; failed writes are counted.                   *)
(***************************************************************************)
Saved(write, d, outcome) ==
    IF write
    THEN /\ outcome = "ok" \/ failedWrites < MaxFailedWrites
         /\ disk' = save_contacts(disk, d, outcome).file
         /\ failedWrites' = IF outcome = "ok" THEN failedWrites ELSE failedWrites + 1
    ELSE /\ outcome = "ok"
         /\ UNCHANGED <<disk, failedWrites>>

Op(op, phone, name, ret, rule, write, d, outcome) ==
    [op |-> op, phone |-> phone, name |-> name, ret |-> ret, rule |-> rule,
     write |-> IF write THEN outcome ELSE "none",
     raised |-> write /\ save_contacts(disk, d, outcome).raised]

\* POST /api/contacts/{phone}/name -> contact_service.set_contact_name
SetName(P, O) ==
    \E phone \in P, name \in UserNames, outcome \in O :
        LET r == set_contact_name(contacts, phone, name)
        IN  /\ contacts' = r.contacts
            /\ Saved(r.write, r.contacts, outcome)
            /\ last' = Op("set", phone, NoneVal, NoneVal, 0, r.write, r.contacts, outcome)
            /\ track' = TrackSet(track, normalize_phone(phone), r, name)

\* DELETE /api/contacts/{phone}/name -> contact_service.remove_contact_name
RemoveName(P, O) ==
    \E phone \in P, outcome \in O :
        LET r == remove_contact_name(contacts, phone)
        IN  /\ contacts' = r.contacts
            /\ Saved(r.write, r.contacts, outcome)
            /\ last' = Op("remove", phone, NoneVal, NoneVal, 0, r.write, r.contacts, outcome)
            /\ track' = TrackRemove(track, normalize_phone(phone), r)

\* parse_webhook_payload -> contact_service.update_contact_from_webhook
LearnFromInbound(P, O) ==
    \E phone \in P, name \in WebhookNames, outcome \in O :
        LET r == update_contact_from_webhook(contacts, phone, name)
        IN  /\ contacts' = r.contacts
            /\ Saved(r.write, r.contacts, outcome)
            /\ last' = Op("learn", phone, name, r.ret, r.rule, r.write, r.contacts, outcome)
            /\ track' = TrackLearn(track, normalize_phone(phone), r)

\* GET /api/contacts/{phone}/name -> contact_service.get_contact_name
GetName(P) ==
    \E phone \in P :
        /\ last' = [op |-> "get", phone |-> phone, name |-> NoneVal,
                    ret |-> get_contact_name(contacts, phone), rule |-> 0,
                    write |-> "none", raised |-> FALSE]
        /\ UNCHANGED <<contacts, disk, failedWrites, track>>

\* the process starts again: ContactService.__init__ loads contacts.json
Restart ==
    /\ contacts' = load_contacts(disk)
    /\ last' = [op |-> "restart", phone |-> NoneVal, name |-> NoneVal,
                ret |-> NoneVal, rule |-> 0, write |-> "none", raised |-> FALSE]
    /\ track' = Idle
    /\ UNCHANGED <<disk, failedWrites>>

DirInit ==
    /\ disk \in InitialFiles
    /\ contacts = load_contacts(disk)
    /\ last = [op |-> "init", phone |-> NoneVal, name |-> NoneVal,
               ret |-> NoneVal, rule |-> 0, write |-> "none", raised |-> FALSE]
    /\ failedWrites = 0
    /\ track = Idle

(***************************************************************************)
(* EndMessageMCP._parse_send_command.  The three regular expressions are   *)
(* matched as the backtracking matcher matches them: a greedy \s+ takes    *)
(* the longest run first, a lazy group the shortest text first.            *)
(***************************************************************************)
DQ == "\""

SQ == "'"

NoParse == [message |-> NoneVal, recipient |-> NoneVal]

NotParsed == [message |-> <<"<NotParsed>">>, recipient |-> NoneVal]

\* length of the run of \s characters of s that starts at index i
RECURSIVE WsRun(_, _)
WsRun(s, i) ==
    IF i <= Len(s) /\ s[i] \in Whitespace THEN 1 + WsRun(s, i + 1) ELSE 0

\* (?:send|sent) at the start, IGNORECASE
Keyword(s) ==
    /\ Len(s) >= 4
    /\ lower(SubSeq(s, 1, 4)) \in {<<"s", "e", "n", "d">>, <<"s", "e", "n", "t">>}

\* "." matches s[i]: every character under DOTALL, every one but "\n" without
Dot(s, i, dotall) == dotall \/ s[i] # "\n"

\* \s+to\s+(.+)$ matched from index b: group 2, or NoneVal when it does not
\* match.  Each \s+ is followed by a character that is not whitespace, so it
\* takes its whole run ("to" after the first; the command is stripped, so the
\* second run ends before the end of the string).
TailMatch(s, b, dotall) ==
    LET w1 == WsRun(s, b)
        t  == b + w1
        w2 == WsRun(s, t + 2)
        c  == t + 2 + w2
    IN  IF /\ w1 >= 1
           /\ t + 1 <= Len(s)
           /\ lowerChar(s[t]) = "t"
           /\ lowerChar(s[t + 1]) = "o"
           /\ w2 >= 1
           /\ c <= Len(s)
           /\ \A i \in c..Len(s) : Dot(s, i, dotall)
        THEN SubSeq(s, c, Len(s))
        ELSE NoneVal

\* "(.*?)" followed by the closing quote: the first index j >= from with
\* s[j] = q after which the rest matches, 0 when there is none
RECURSIVE QuotedScan(_, _, _)
QuotedScan(s, q, j) ==
    IF j > Len(s) THEN 0
    ELSE IF s[j] = q /\ TailMatch(s, j + 1, TRUE) # NoneVal THEN j
    ELSE QuotedScan(s, q, j + 1)

RECURSIVE UnquotedScan_greedy(_, _, _)
UnquotedScan_greedy(s, a, b) ==
    IF b > Len(s) THEN 0
    ELSE IF s[b - 1] = "\n" THEN 0
    ELSE LET later == UnquotedScan_greedy(s, a, b + 1)
         IN  IF later # 0 THEN later
             ELSE IF TailMatch(s, b, FALSE) # NoneVal THEN b
             ELSE 0

\* "(.+?)" from index a: the first index b > a such that s[a..b-1] has no
\* "\n" and the rest matches from b, 0 when there is none
RECURSIVE UnquotedScan(_, _, _)
UnquotedScan(s, a, b) ==
    IF b > Len(s) THEN 0
    ELSE IF s[b - 1] = "\n" THEN 0
    ELSE IF TailMatch(s, b, FALSE) # NoneVal THEN b
    ELSE UnquotedScan(s, a, b + 1)

\* patterns 1 and 2: ^(?:send|sent)\s+q(.*?)q\s+to\s+(.+)$, IGNORECASE | DOTALL;
\* returns match.group(1), match.group(2).strip()
match_quoted(s, q) ==
    LET o == 5 + WsRun(s, 5)
    IN  IF Keyword(s) /\ o > 5 /\ o <= Len(s) /\ s[o] = q
        THEN LET j == QuotedScan(s, q, o + 1)
             IN  IF j # 0
                 THEN [message   |-> SubSeq(s, o + 1, j - 1),
                       recipient |-> strip(TailMatch(s, j + 1, TRUE))]
                 ELSE NoParse
        ELSE NoParse

\* pattern 3 with the first \s+ taking n characters, then n - 1, ... then 1
RECURSIVE UnquotedTry(_, _)
UnquotedTry(s, n) ==
    IF n = 0 THEN NoParse
    ELSE LET b == UnquotedScan(s, 5 + n, 6 + n)
         IN  IF b # 0
             THEN [message   |-> strip(SubSeq(s, 5 + n, b - 1)),
                   recipient |-> strip(TailMatch(s, b, FALSE))]
             ELSE UnquotedTry(s, n - 1)

\* pattern 3: ^(?:send|sent)\s+(.+?)\s+to\s+(.+)$, IGNORECASE;
\* returns match.group(1).strip(), match.group(2).strip()
match_unquoted(s) ==
    IF Keyword(s) THEN UnquotedTry(s, WsRun(s, 5)) ELSE NoParse

parse_send_command(cmd) ==
    LET s == strip(cmd)
    IN  IF match_quoted(s, DQ) # NoParse THEN match_quoted(s, DQ)
        ELSE IF match_quoted(s, SQ) # NoParse THEN match_quoted(s, SQ)
        ELSE match_unquoted(s)

(***************************************************************************)
(* Send commands: a head, up to MaxTokens tokens, a tail.                  *)
(***************************************************************************)
\* " send ", "SENT   ", "send \"", "Sent '", "hello "
CommandHeads ==
    { <<" ", "s", "e", "n", "d", " ">>,
      <<"S", "E", "N", "T", " ", " ", " ">>,
      <<"s", "e", "n", "d", " ", DQ>>,
      <<"S", "e", "n", "t", " ", SQ>>,
      <<"h", "e", "l", "l", "o", " ">> }

\* "", " to Bo ", "\" to Bo", "' TO Bo"
CommandTails ==
    { <<>>,
      <<" ", "t", "o", " ", "B", "o", " ">>,
      <<DQ, " ", "t", "o", " ", "B", "o">>,
      <<SQ, " ", "T", "O", " ", "B", "o">> }

\* " ", "to", "hi", a double quote, a single quote, a newline, " to "
CommandTokens ==
    { <<" ">>, <<"t", "o">>, <<"h", "i">>, <<DQ>>, <<SQ>>, <<"\n">>,
      <<" ", "t", "o", " ">> }

ParseIdle ==
    /\ command = <<>>
    /\ cmdTail = <<>>
    /\ nTokens = 0
    /\ parsed = NotParsed

\* one more token of the command text
Type(tok) ==
    /\ parsed = NotParsed
    /\ nTokens < MaxTokens
    /\ command' = command \o tok
    /\ nTokens' = nTokens + 1
    /\ UNCHANGED <<cmdTail, parsed>>

\* process_command hands the whole command to _parse_send_command
Submit ==
    /\ parsed = NotParsed
    /\ command' = command \o cmdTail
    /\ cmdTail' = <<>>
    /\ parsed' = parse_send_command(command')
    /\ UNCHANGED nTokens

(***************************************************************************)
(* EndMessageMCP._resolve_contact and MeetingMCP._resolve_contact.  The    *)
(* alias map is a dict: a sequence of [key, id] in insertion order.        *)
(***************************************************************************)
\* a in b
IsSub(a, b) ==
    \E i \in 0..(Len(b) - Len(a)) : SubSeq(b, i + 1, i + Len(a)) = a

\* aliases[k] = id
AliasSet(d, k, id) ==
    LET e == [key |-> k, id |-> id]
    IN  IF HasKey(d, k) THEN [d EXCEPT ![IndexOf(d, k)] = e] ELSE Append(d, e)

\* `for alias, contact_id in aliases.items()`: index of the first alias that
\* contains name_lower or is contained in it, 0 when the loop ends without one
RECURSIVE FirstFuzzy(_, _, _)
FirstFuzzy(d, name_lower, i) ==
    IF i > Len(d) THEN 0
    ELSE IF IsSub(name_lower, d[i].key) \/ IsSub(d[i].key, name_lower) THEN i
    ELSE FirstFuzzy(d, name_lower, i + 1)

resolve_contact_fuzzy_first(name, d) ==
    LET name_lower == strip(lower(name))
        i == FirstFuzzy(d, name_lower, 1)
    IN  IF i # 0 THEN d[i].id
        ELSE IF HasKey(d, name_lower) THEN d[IndexOf(d, name_lower)].id
        ELSE IF Truthy(name) THEN name ELSE NoneVal

\* EndMessageMCP._resolve_contact
resolve_contact(name, d) ==
    LET name_lower == strip(lower(name))
        i == FirstFuzzy(d, name_lower, 1)
    IN  IF HasKey(d, name_lower) THEN d[IndexOf(d, name_lower)].id
        ELSE IF i # 0 THEN d[i].id
        ELSE IF Truthy(name) THEN name ELSE NoneVal

\* MeetingMCP._resolve_contact
meeting_resolve_contact(name, d) ==
    LET name_lower == strip(lower(name))
        i == FirstFuzzy(d, name_lower, 1)
    IN  IF HasKey(d, name_lower) THEN d[IndexOf(d, name_lower)].id
        ELSE IF i # 0 THEN d[i].id
        ELSE NoneVal

\* "john", "johnny", "jo", "John", " jo": the orchestrator builds lower-case
\* trimmed keys, POST /api/mcp/send passes the caller's keys as they are
AliasKeys ==
    { <<"j", "o", "h", "n">>,
      <<"j", "o", "h", "n", "n", "y">>,
      <<"j", "o">>,
      <<"J", "o", "h", "n">>,
      <<" ", "j", "o">> }

ContactIds == { <<"1", "1", "1">>, <<"2", "2", "2">> }

\* "john", "John ", "JO", "ohn", "", "to john"
Targets ==
    { <<"j", "o", "h", "n">>,
      <<"J", "o", "h", "n", " ">>,
      <<"J", "O">>,
      <<"o", "h", "n">>,
      <<>>,
      <<"t", "o", " ", "j", "o", "h", "n">> }

Unresolved == [send |-> <<"<Unresolved>">>, meeting |-> <<"<Unresolved>">>]

ResolveIdle ==
    /\ aliases = <<>>
    /\ target = <<>>
    /\ resolved = Unresolved

\* one more entry of the alias map, or a new id for a key it has
AddAlias(k, id) ==
    /\ resolved = Unresolved
    /\ Len(aliases) < MaxAliases \/ HasKey(aliases, k)
    /\ aliases' = AliasSet(aliases, k, id)
    /\ UNCHANGED <<target, resolved>>

\* process_command and process_meeting_command resolve the recipient
Resolve(name) ==
    /\ resolved = Unresolved
    /\ target' = name
    /\ resolved' = [send    |-> resolve_contact(name, aliases),
                    meeting |-> meeting_resolve_contact(name, aliases)]
    /\ UNCHANGED aliases

(***************************************************************************)
(* VectorService: the Conversation Store.  The collection is the sequence  *)
(* of its records in insertion order.  A call on the collection either     *)
(* works or raises ("error").                                              *)
(***************************************************************************)
StoreOutcomes == {"ok", "error"}

\* datetime.fromtimestamp(ts / 1000): the second and the millisecond in it
DatetimeOf(ts) == [second |-> ts \div 1000, millis |-> ts % 1000]

\* None where an Optional[int] timestamp is expected (the timestamps of the
\* model are not negative)
NoneInt == -1

\* truthiness of an int-or-None value: None and 0 are falsy
TruthyInt(n) == n # NoneInt /\ n # 0

add_message_swallow(st, contact_id, text, sender, receiver, timestamp, clock, outcome) ==
    LET ts == IF TruthyInt(timestamp) THEN timestamp ELSE clock
        record == [contact_id |-> contact_id, text |-> text, sender |-> sender,
                   receiver |-> receiver, timestamp |-> ts,
                   datetime |-> DatetimeOf(ts)]
    IN  IF outcome = "ok"
        THEN [store |-> Append(st, record), raised |-> FALSE]
        ELSE [store |-> st, raised |-> FALSE]

\* add_message: the record is added with ts = timestamp if timestamp else the
\* current time; an error of the collection is logged and raised again as
\* Exception("Failed to add message: ...")
add_message(st, contact_id, text, sender, receiver, timestamp, clock, outcome) ==
    LET ts == IF TruthyInt(timestamp) THEN timestamp ELSE clock
        record == [contact_id |-> contact_id, text |-> text, sender |-> sender,
                   receiver |-> receiver, timestamp |-> ts,
                   datetime |-> DatetimeOf(ts)]
    IN  IF outcome = "ok"
        THEN [store |-> Append(st, record), raised |-> FALSE]
        ELSE [store |-> st, raised |-> TRUE]

\* `limit: int = 50` of get_conversation_history and of its endpoint
DefaultLimit == 50

\* the limit argument left out; a limit that is passed is <<limit>>
Unset == <<>>

\* list(reversed(s))
RECURSIVE Reverse(_)
Reverse(s) == IF s = <<>> THEN <<>> ELSE Append(Reverse(Tail(s)), Head(s))

\* the records of st that meet where = {"contact_id": contact_id}
RECURSIVE Where(_, _)
Where(st, contact_id) ==
    IF st = <<>> THEN <<>>
    ELSE IF Head(st).contact_id = contact_id
         THEN <<Head(st)>> \o Where(Tail(st), contact_id)
         ELSE Where(Tail(st), contact_id)

\* collection.get(where=...): the matching records.  The code asks for no
\* order and the collection promises none; two orders are modelled, that of
\* insertion and its reverse.
GetOrders == {"insertion", "reverse"}

CollectionGet(st, contact_id, order) ==
    IF order = "insertion" THEN Where(st, contact_id)
    ELSE Reverse(Where(st, contact_id))

\* one step of list.sort(key=timestamp): r goes behind every element of the
\* sorted list whose timestamp is not greater (the sort is stable)
RECURSIVE InsertByTimestamp(_, _)
InsertByTimestamp(sorted, r) ==
    IF sorted = <<>> THEN <<r>>
    ELSE IF Head(sorted).timestamp <= r.timestamp
         THEN <<Head(sorted)>> \o InsertByTimestamp(Tail(sorted), r)
         ELSE <<r>> \o sorted

\* messages.sort(key=lambda x: x["timestamp"])
RECURSIVE SortByTimestamp(_)
SortByTimestamp(messages) ==
    IF messages = <<>> THEN <<>>
    ELSE InsertByTimestamp(SortByTimestamp(SubSeq(messages, 1, Len(messages) - 1)),
                           messages[Len(messages)])

\* messages[-limit:] for an int limit # 0
LastSlice(messages, limit) ==
    LET n     == Len(messages)
        start == IF limit > 0
                 THEN (IF n - limit > 0 THEN n - limit ELSE 0)
                 ELSE (IF -limit < n THEN -limit ELSE n)
    IN  SubSeq(messages, start + 1, n)

\* the message dict built from a document and its metadata
MessageOf(r) ==
    [text |-> r.text, sender |-> r.sender, receiver |-> r.receiver,
     timestamp |-> r.timestamp, datetime |-> r.datetime]

get_conversation_history_unlimited(st, contact_id, limit, order, outcome) ==
    LET got      == CollectionGet(st, contact_id, order)
        messages == SortByTimestamp([i \in 1..Len(got) |-> MessageOf(got[i])])
    IN  IF outcome = "error" THEN <<>> ELSE messages

\* get_conversation_history: [] when the collection raises
get_conversation_history(st, contact_id, limit, order, outcome) ==
    LET lim      == IF limit = Unset THEN DefaultLimit ELSE limit[1]
        got      == CollectionGet(st, contact_id, order)
        messages == SortByTimestamp([i \in 1..Len(got) |-> MessageOf(got[i])])
    IN  IF outcome = "error" THEN <<>>
        ELSE IF lim # 0 THEN LastSlice(messages, lim)
        ELSE messages

\* search_similar_messages: the collection ranks the records that meet the
\* filter (all records without contact_id) and returns n_results of them;
\* which ones is the index's matter, hits is its choice.  [] when it raises.
search_similar_messages(hits, outcome) ==
    IF outcome = "error" THEN <<>>
    ELSE [i \in 1..Len(hits) |-> MessageOf(hits[i])]

\* get_all_contacts: the set of contact ids of all records; [] when the
\* collection raises
get_all_contacts(st, outcome) ==
    IF outcome = "error" THEN {}
    ELSE {st[i].contact_id : i \in 1..Len(st)}

(***************************************************************************)
(* WhatsAppService.send_message: one POST to the Graph API; it returns the *)
(* response or raises Exception("Failed to send WhatsApp message: ...").   *)
(***************************************************************************)
SendOutcomes == {"ok", "error"}

Attempt(to, text, outcome) == [to |-> to, text |-> text, ok |-> outcome = "ok"]

(***************************************************************************)
(* EndMessageMCP.process_command.  The value is what it returns, the send  *)
(* attempts it made and the store it leaves.                               *)
(***************************************************************************)
CommandResult(success, error, recipient, contact_id) ==
    [success |-> success, error |-> error, recipient |-> recipient,
     contact_id |-> contact_id]

process_command(cmd, al, whatsapp_token, phone_number_id, st, clock, sendOutcome, addOutcome) ==
    Only({
    LET contact_id == resolve_contact(p.recipient, al)
        added      == add_message(st, contact_id, p.message, phone_number_id,
                                  contact_id, NoneInt, clock, addOutcome)
    IN  IF ~Truthy(p.message) \/ ~Truthy(p.recipient)
        THEN [ret   |-> CommandResult(FALSE, "Could not parse command", NoneVal, NoneVal),
              sent  |-> <<>>,
              store |-> st]
        ELSE IF ~Truthy(contact_id)
        THEN [ret   |-> CommandResult(FALSE, "Contact not found in aliases", p.recipient, NoneVal),
              sent  |-> <<>>,
              store |-> st]
        ELSE IF sendOutcome = "error"
        THEN [ret   |-> CommandResult(FALSE, "Failed to send WhatsApp message", NoneVal, NoneVal),
              sent  |-> <<Attempt(contact_id, p.message, sendOutcome)>>,
              store |-> st]
        ELSE IF added.raised
        THEN [ret   |-> CommandResult(FALSE, "Failed to add message", NoneVal, NoneVal),
              sent  |-> <<Attempt(contact_id, p.message, sendOutcome)>>,
              store |-> st]
        ELSE [ret   |-> CommandResult(TRUE, "", p.recipient, contact_id),
              sent  |-> <<Attempt(contact_id, p.message, sendOutcome)>>,
              store |-> added.store]
    : p \in {parse_send_command(cmd)} })

(***************************************************************************)
(* Commands posted to /api/mcp/send.                                       *)
(***************************************************************************)
\* `send hi to Jhon`, `send "hi" to john`, `send hi to 333`, `hello John`
Commands ==
    { <<"s", "e", "n", "d", " ", "h", "i", " ", "t", "o", " ", "J", "h", "o", "n">>,
      <<"s", "e", "n", "d", " ", DQ, "h", "i", DQ, " ", "t", "o", " ", "j", "o", "h", "n">>,
      <<"s", "e", "n", "d", " ", "h", "i", " ", "t", "o", " ", "3", "3", "3">>,
      <<"h", "e", "l", "l", "o", " ", "J", "o", "h", "n">> }

IdJohn == <<"1", "1", "1">>

IdJohnny == <<"2", "2", "2">>

\* {john: 111, johnny: 222} in both insertion orders, and the empty map
AliasMaps ==
    { <<[key |-> <<"j", "o", "h", "n">>, id |-> IdJohn],
        [key |-> <<"j", "o", "h", "n", "n", "y">>, id |-> IdJohnny]>>,
      <<[key |-> <<"j", "o", "h", "n", "n", "y">>, id |-> IdJohnny],
        [key |-> <<"j", "o", "h", "n">>, id |-> IdJohn]>>,
      <<>> }

\* WHATSAPP_TOKEN and PHONE_NUMBER_ID of the request
Token == <<"t", "k">>

BusinessId == <<"9", "9", "9">>

AgentTasks == 1..NumAgents

NoResult == [op |-> "none"]

NoAgent == [pc |-> "none"]

AgentIdle ==
    /\ store = <<>>
    /\ sends = <<>>
    /\ out = NoResult
    /\ now = 1
    /\ history = <<>>
    /\ agents = [t \in AgentTasks |-> NoAgent]
    /\ active = 0
    /\ chats = 0

\* mcp_send: one call of process_command
ProcessCommand(cmd, al, sendOutcome, addOutcome) ==
    /\ Len(sends) < MaxSends
    /\ LET r == process_command(cmd, al, Token, BusinessId, store, now,
                                sendOutcome, addOutcome)
       IN  /\ sends' = sends \o r.sent
           /\ store' = r.store
           /\ out' = [op |-> "process_command", command |-> cmd, aliases |-> al,
                      ret |-> r.ret, sent |-> r.sent,
                      appended |-> SubSeq(r.store, Len(store) + 1, Len(r.store))]
    /\ UNCHANGED <<now, history, agents, active, chats>>

(***************************************************************************)
(* The Conversation Store in use: the collection is persistent, so the     *)
(* process finds it empty or as earlier runs left it.                      *)
(***************************************************************************)
ContactA == IdJohn

ContactB == IdJohnny

Business == <<"b", "u", "s", "i", "n", "e", "s", "s">>

OldText == <<"o">>

\* the clock when the process starts
StartTime == 2000

\* a collection of DefaultLimit inbound messages of contact A, one a millisecond
OldStore ==
    [i \in 1..DefaultLimit |->
        [contact_id |-> ContactA, text |-> OldText, sender |-> ContactA,
         receiver |-> Business, timestamp |-> 1000 + i,
         datetime |-> DatetimeOf(1000 + i)]]

InitialStores == {<<>>, OldStore}

\* the arguments of add_message: outbound messages stored without a
\* timestamp, inbound ones with the timestamp of the webhook
Appends ==
    { [contact_id |-> ContactA, text |-> <<"x">>, sender |-> BusinessId,
       receiver |-> ContactA, timestamp |-> NoneInt],
      [contact_id |-> ContactA, text |-> <<"y">>, sender |-> ContactA,
       receiver |-> Business, timestamp |-> 1025],
      [contact_id |-> ContactA, text |-> <<"w">>, sender |-> ContactA,
       receiver |-> Business, timestamp |-> 0],
      [contact_id |-> ContactB, text |-> <<"x">>, sender |-> ContactB,
       receiver |-> Business, timestamp |-> 1025] }

Limits == {Unset, <<0>>, <<2>>, <<-1>>}

\* number of records added since the process started
NewCount(st) == Cardinality({i \in 1..Len(st) : st[i].text # OldText})

Tick ==
    /\ now < StartTime + MaxTicks
    /\ now' = now + 1
    /\ UNCHANGED <<store, sends, out, history, agents, active, chats>>

AddMessage(m, outcome) ==
    /\ NewCount(store) < MaxAppends
    /\ LET r == add_message(store, m.contact_id, m.text, m.sender, m.receiver,
                            m.timestamp, now, outcome)
       IN  /\ store' = r.store
           /\ out' = [op |-> "append", args |-> m, clock |-> now,
                      failed |-> outcome = "error", raised |-> r.raised]
    /\ UNCHANGED <<sends, now, history, agents, active, chats>>

History(contact_id, limit, order, outcome) ==
    /\ out' = [op |-> "history", contact_id |-> contact_id, limit |-> limit,
               got |-> CollectionGet(store, contact_id, order),
               failed |-> outcome = "error", raised |-> FALSE,
               ret |-> get_conversation_history(store, contact_id, limit, order, outcome)]
    /\ UNCHANGED <<store, sends, now, history, agents, active, chats>>

\* the index returns the first or the last n_results = 1 of the records that
\* meet the filter
Search(contact_id, fromEnd, outcome) ==
    LET pool == IF contact_id = NoneVal THEN store ELSE Where(store, contact_id)
        hits == IF pool = <<>> THEN <<>>
                ELSE IF fromEnd THEN <<pool[Len(pool)]>> ELSE <<pool[1]>>
    IN  /\ out' = [op |-> "search", contact_id |-> contact_id,
                   failed |-> outcome = "error", raised |-> FALSE,
                   ret |-> search_similar_messages(hits, outcome)]
        /\ UNCHANGED <<store, sends, now, history, agents, active, chats>>

ListContacts(outcome) ==
    /\ out' = [op |-> "list_contacts", failed |-> outcome = "error",
               raised |-> FALSE, ret |-> get_all_contacts(store, outcome)]
    /\ UNCHANGED <<store, sends, now, history, agents, active, chats>>

StoreInit ==
    /\ store \in InitialStores
    /\ sends = <<>>
    /\ out = NoResult
    /\ now = StartTime
    /\ history = <<>>
    /\ agents = [t \in AgentTasks |-> NoAgent]
    /\ active = 0
    /\ chats = 0

(***************************************************************************)
(* The replies of the language model.  A reply is a Python string; the     *)
(* members of a JSON object in it (everything between its braces) are one  *)
(* element of the sequence, a body marker, that stands for three or more   *)
(* characters.  Bodies gives the members a body marker stands for: a       *)
(* missing member is "absent", a missing string member is "".              *)
(***************************************************************************)
NoInfo ==
    [intent |-> "absent", is_valid_request |-> "absent",
     recipient_name |-> <<>>, recipient_number |-> <<>>,
     resolved_recipient_name |-> <<>>, resolved_recipient_number |-> <<>>,
     message_to_send |-> <<>>,
     contact_name |-> <<>>, contact_number |-> <<>>, draft_message |-> <<>>]

NameJohnDoe == <<"J", "o", "h", "n", " ", "D", "o", "e">>

NameJohn == <<"J", "o", "h", "n">>

NameJhon == <<"J", "h", "o", "n">>

TextHi == <<"h", "i">>

\* a draft with a quoted word in it: say "hi" to bo
TextQuoted == <<"s", "a", "y", " ", DQ, "h", "i", DQ, " ", "t", "o", " ", "b", "o">>

Bodies ==
    [b \in {"<intent:send>", "<intent:meet>", "<intent:chat>", "<intent:other>",
            "<to:john>", "<to:jhon>", "<to:invalid>", "<to:john,valid:'false'>",
            "<meet:john>", "<meet:nobody>", "<meet:invalid>"} |->
        CASE b = "<intent:send>"  -> [NoInfo EXCEPT !.intent = "send_message"]
          [] b = "<intent:meet>"  -> [NoInfo EXCEPT !.intent = "schedule_meeting"]
          [] b = "<intent:chat>"  -> [NoInfo EXCEPT !.intent = "general_chat"]
          [] b = "<intent:other>" -> [NoInfo EXCEPT !.intent = "add_todo"]
          [] b = "<to:john>" ->
                [NoInfo EXCEPT !.is_valid_request = "true",
                               !.recipient_name = NameJohn,
                               !.resolved_recipient_name = NameJohnDoe,
                               !.message_to_send = TextHi]
          [] b = "<to:jhon>" ->
                [NoInfo EXCEPT !.is_valid_request = "true",
                               !.recipient_name = NameJhon,
                               !.message_to_send = TextHi]
          [] b = "<to:invalid>" ->
                [NoInfo EXCEPT !.is_valid_request = "false",
                               !.message_to_send = TextHi]
          [] b = "<to:john,valid:'false'>" ->
                [NoInfo EXCEPT !.is_valid_request = "'false'",
                               !.recipient_name = NameJohn,
                               !.message_to_send = TextHi]
          [] b = "<meet:john>" ->
                [NoInfo EXCEPT !.is_valid_request = "true",
                               !.contact_name = NameJohn,
                               !.resolved_recipient_name = NameJohnDoe,
                               !.resolved_recipient_number = IdJohn,
                               !.draft_message = TextHi]
          [] b = "<meet:nobody>" ->
                [NoInfo EXCEPT !.is_valid_request = "true"]
          [] b = "<meet:invalid>" ->
                [NoInfo EXCEPT !.is_valid_request = "false",
                               !.contact_name = NameJohn]]

BodyMarkers == DOMAIN Bodies

\* what is left of a body when the end of it is cut off
CutBody == "<cut>"

\* truthiness of a JSON value: true and the string 'false' are truthy, false
\* and a missing member (default False) are falsy
JsonTruthy(v) == v \in {"true", "'false'"}

\* s.startswith(prefix)
startswith(s, prefix) ==
    /\ Len(prefix) <= Len(s)
    /\ SubSeq(s, 1, Len(prefix)) = prefix

\* the grave accent, which a string of this language cannot hold
BT == "<grave>"

\* the code fences of Markdown
FenceJson == <<BT, BT, BT, "j", "s", "o", "n">>

Fence == <<BT, BT, BT>>

\* s[:-n]: a cut that ends inside a body leaves a cut body
RECURSIVE DropLast(_, _)
DropLast(s, n) ==
    IF n = 0 \/ s = <<>> THEN s
    ELSE IF s[Len(s)] \in BodyMarkers
         THEN Append(SubSeq(s, 1, Len(s) - 1), CutBody)
    ELSE DropLast(SubSeq(s, 1, Len(s) - 1), n - 1)

\* response[7:-3] behind a json fence, response[3:-3] behind a plain fence
Unfence(response) ==
    IF startswith(response, FenceJson)
    THEN DropLast(SubSeq(response, Len(FenceJson) + 1, Len(response)), Len(Fence))
    ELSE IF startswith(response, Fence)
    THEN DropLast(SubSeq(response, Len(Fence) + 1, Len(response)), Len(Fence))
    ELSE response

NotJson == [ok |-> FALSE, kind |-> "none", body |-> "<none>"]

\* json.loads on the replies of the model: an object with members, the empty
\* object {}, the list [1]; any other text of the replies is no JSON
json_loads(text) ==
    LET t == strip(text)
    IN  IF Len(t) = 3 /\ t[1] = "{" /\ t[2] \in BodyMarkers /\ t[3] = "}"
        THEN [ok |-> TRUE, kind |-> "dict", body |-> t[2]]
        ELSE IF t = <<"{", "}">>
        THEN [ok |-> TRUE, kind |-> "dict", body |-> "<empty>"]
        ELSE IF t = <<"[", "1", "]">>
        THEN [ok |-> TRUE, kind |-> "list", body |-> "<none>"]
        ELSE NotJson

\* re.search(r'\{[\s\S]*\}', response): from the first '{' to the last '}'
\* behind it; <<>> without a match
SearchObject(response) ==
    LET opens  == {i \in 1..Len(response) : response[i] = "{"}
        first  == CHOOSE i \in opens : \A k \in opens : i <= k
        closes == {j \in 1..Len(response) : response[j] = "}" /\ j > first}
        last_  == CHOOSE j \in closes : \A k \in closes : j >= k
    IN  IF opens = {} THEN <<>>
        ELSE IF closes = {} THEN <<>>
        ELSE SubSeq(response, first, last_)

\* message_info after json.loads and the search for an embedded object
ParseReply(response) ==
    LET direct == json_loads(response)
        m      == SearchObject(response)
    IN  IF direct.ok THEN direct
        ELSE IF m # <<>> THEN json_loads(m)
        ELSE NotJson

\* `not message_info`: nothing parsed, or an empty object
Falsy(info) == ~info.ok \/ (info.kind = "dict" /\ info.body = "<empty>")

\* the members of a parsed object
InfoOf(info) == IF info.body \in BodyMarkers THEN Bodies[info.body] ELSE NoInfo

fallback_indicators ==
    { <<"t", "e", "m", "p", "o", "r", "a", "r", "i", "l", "y", " ", "u", "n", "a", "b", "l", "e", " ",
        "t", "o", " ", "g", "e", "n", "e", "r", "a", "t", "e">>,
      <<"q", "u", "o", "t", "a">>,
      <<"r", "a", "t", "e", " ", "l", "i", "m", "i", "t">>,
      <<"u", "n", "a", "b", "l", "e", " ", "t", "o", " ", "g", "e", "n", "e", "r", "a", "t", "e", " ",
        "r", "e", "p", "l", "i", "e", "s">> }

\* any(ind in low for ind in fallback_indicators)
HasQuotaSignature(response) ==
    \E ind \in fallback_indicators : IsSub(ind, lower(response))

(***************************************************************************)
(* AIAgentContext: the agent orchestrator.  A call of the language model   *)
(* returns a text or raises; a turn of the history is a record of role,    *)
(* message and action_type; the fixed texts of the responses are one       *)
(* element each.                                                           *)
(***************************************************************************)
LLMRaise == [raised |-> TRUE, text |-> <<>>]

Said(text) == [raised |-> FALSE, text |-> text]

Resp(label) == <<label>>

UserTurn(user_input) ==
    [role |-> "user", message |-> user_input, action_type |-> "absent"]

AgentTurn(message, action_type) ==
    [role |-> "agent", message |-> message, action_type |-> action_type]

Result(success, response, action_type) ==
    [success |-> success, response |-> response, action_type |-> action_type]

\* \w of the lower-cased inputs
WordChars ==
    {"a", "b", "c", "d", "e", "f", "g", "h", "i", "j", "k", "l", "m", "n", "o",
     "p", "q", "r", "s", "t", "u", "v", "w", "x", "y", "z", "_"} \cup Digits

\* re.search(a + '.*' + b, s): a, then b behind it with no newline between
Follows(s, a, b) ==
    \E i \in 1..(Len(s) - Len(a) + 1), j \in 1..(Len(s) - Len(b) + 1) :
        /\ SubSeq(s, i, i + Len(a) - 1) = a
        /\ j >= i + Len(a)
        /\ SubSeq(s, j, j + Len(b) - 1) = b
        /\ \A k \in (i + Len(a))..(j - 1) : s[k] # "\n"

\* re.search(a + '.*(\w+)', s)
FollowedByWord(s, a) == \E ch \in WordChars : Follows(s, a, <<ch>>)

\* re.search(r'send.*to\s+(\w+)', s)
SendToWord(s) ==
    \E i \in 1..(Len(s) - 3), j \in 1..(Len(s) - 3), n \in 1..Len(s) :
        /\ SubSeq(s, i, i + 3) = <<"s", "e", "n", "d">>
        /\ j >= i + 4
        /\ \A k \in (i + 4)..(j - 1) : s[k] # "\n"
        /\ SubSeq(s, j, j + 1) = <<"t", "o">>
        /\ j + 2 + n <= Len(s)
        /\ \A k \in (j + 2)..(j + 1 + n) : s[k] \in Whitespace
        /\ s[j + 2 + n] \in WordChars

\* _fallback_intent_analysis: the intent by regular expressions
fallback_intent_analysis(user_input) ==
    LET user_lower == lower(user_input)
    IN  IF \/ SendToWord(user_lower)
           \/ FollowedByWord(user_lower, <<"m", "e", "s", "s", "a", "g", "e">>)
           \/ FollowedByWord(user_lower, <<"t", "e", "l", "l">>)
        THEN [kind |-> "dict", intent |-> "send_message"]
        ELSE IF \/ Follows(user_lower, <<"m", "e", "e", "t", "i", "n", "g">>, <<"w", "i", "t", "h">>)
                \/ Follows(user_lower, <<"s", "c", "h", "e", "d", "u", "l", "e">>,
                           <<"m", "e", "e", "t", "i", "n", "g">>)
                \/ Follows(user_lower, <<"m", "e", "e", "t">>, <<"w", "i", "t", "h">>)
                \/ IsSub(<<"a", "p", "p", "o", "i", "n", "t", "m", "e", "n", "t">>, user_lower)
        THEN [kind |-> "dict", intent |-> "schedule_meeting"]
        ELSE [kind |-> "dict", intent |-> "general_chat"]

\* _analyze_intent: json.loads of the model's reply without its fence, the
\* regular expressions when the model raises or the reply is no JSON
analyze_intent(user_input, llm) ==
    LET parsed_ == json_loads(Unfence(strip(llm.text)))
    IN  IF llm.raised \/ ~parsed_.ok THEN fallback_intent_analysis(user_input)
        ELSE [kind |-> parsed_.kind, intent |-> InfoOf(parsed_).intent]

\* phone_to_name = contact_service.get_all_contacts()
get_all_contacts_names(d) ==
    [i \in 1..Len(d) |->
        [key |-> d[i].key, name |-> IF Truthy(d[i].name) THEN d[i].name ELSE <<>>]]

NameSeparators == Whitespace \cup {",", ".", "-"}

\* the non-empty pieces of re.split(r"[\s,.-]+", s), cur the piece being read
RECURSIVE SplitName(_, _)
SplitName(s, cur) ==
    IF s = <<>> THEN (IF cur = <<>> THEN <<>> ELSE <<cur>>)
    ELSE IF Head(s) \in NameSeparators
         THEN (IF cur = <<>> THEN <<>> ELSE <<cur>>) \o SplitName(Tail(s), <<>>)
         ELSE SplitName(Tail(s), Append(cur, Head(s)))

\* `if k not in aliases: aliases[k] = p`
AliasSetDefault(al, k, p) == IF HasKey(al, k) THEN al ELSE AliasSet(al, k, p)

RECURSIVE AddTokens(_, _, _)
AddTokens(al, tokens, p) ==
    IF tokens = <<>> THEN al
    ELSE AddTokens(AliasSetDefault(al, lower(Head(tokens)), p), Tail(tokens), p)

\* the aliases of _handle_send_message: the lower-cased full name and its
\* tokens, where not taken yet, and the phone itself
RECURSIVE BuildAliases(_, _)
BuildAliases(phone_to_name, al) ==
    IF phone_to_name = <<>> THEN al
    ELSE LET p          == Head(phone_to_name).key
             n          == Head(phone_to_name).name
             name_clean == strip(n)
             withFull   == AliasSetDefault(al, lower(name_clean), p)
             withTokens == AddTokens(withFull, SplitName(name_clean, <<>>), p)
         IN  IF ~Truthy(n) THEN BuildAliases(Tail(phone_to_name), al)
             ELSE BuildAliases(Tail(phone_to_name), AliasSet(withTokens, p, p))

\* aliases.get(k)
AliasGet(al, k) == IF HasKey(al, k) THEN Entry(al, k).id ELSE NoneVal

QuoteChars == {DQ, SQ}

RECURSIVE StripQuotes(_)
StripQuotes(s) ==
    IF s = <<>> THEN <<>>
    ELSE IF Head(s) \in QuoteChars THEN StripQuotes(Tail(s))
    ELSE IF s[Len(s)] \in QuoteChars THEN StripQuotes(SubSeq(s, 1, Len(s) - 1))
    ELSE s

\* _make_message_professional: the model's text without surrounding
\* whitespace and quotes, the message itself when the model raises
make_message_professional(message, llm) ==
    IF llm.raised THEN message ELSE StripQuotes(strip(llm.text))

NoCommand ==
    [ret |-> CommandResult(FALSE, "not called", NoneVal, NoneVal), called |-> FALSE,
     command |-> <<>>, message |-> <<>>, target |-> <<>>]

\* process_command as _handle_send_message called it: the command built from
\* the rewritten message and the target, and the result
Commanded(ret, cmd, message, tgt) ==
    [ret |-> ret, called |-> TRUE, command |-> cmd, message |-> message,
     target |-> tgt]

\* mcp_result['whatsapp_fallback'], when the key is there
NoFallback == [present |-> FALSE, success |-> FALSE, raw |-> "absent"]

\* ws_ok = isinstance(ws_result, dict) and ws_result.get('success') or
\* (ws_result is None): send_message returns the JSON of the Graph API, an
\* object without a 'success' member, or raises
FallbackOutcome(direct, recipient_phone) ==
    IF direct = <<>>
    THEN [present |-> TRUE, success |-> FALSE, raw |-> "missing_credentials_or_recipient"]
    ELSE IF direct[1].ok
    THEN [present |-> TRUE, success |-> FALSE, raw |-> "sent"]
    ELSE [present |-> TRUE, success |-> FALSE, raw |-> "error"]

\* the details of a result
NoDetails ==
    [shape |-> "absent", recipient |-> NoneVal, recipient_phone |-> NoneVal,
     message |-> NoneVal, whatsapp_fallback |-> NoFallback]

\* details of a sent message: recipient, recipient_phone, message, mcp_response
SentDetails(recipient, recipient_phone, message) ==
    [shape |-> "sent", recipient |-> recipient, recipient_phone |-> recipient_phone,
     message |-> message, whatsapp_fallback |-> NoFallback]

\* details of a failed send: mcp_result, with its whatsapp_fallback
FailedDetails(fallback) ==
    [shape |-> "mcp_result", recipient |-> NoneVal, recipient_phone |-> NoneVal,
     message |-> NoneVal, whatsapp_fallback |-> fallback]

\* what a handler leaves: its result, the send attempts it made in order,
\* the store, the result of process_command when it was called, and the
\* recipient_phone it resolved
Handled(ret, sent, st, mcp, phone) ==
    [ret |-> ret, sent |-> sent, store |-> st, mcp |-> mcp, phone |-> phone,
     details |-> NoDetails]

Detailed(handled, details) == [handled EXCEPT !.details = details]

\* a send that reports success whenever the message was delivered
reports_success_delivered(mcp_result, direct) ==
    mcp_result.success \/ (direct # <<>> /\ direct[1].ok)

\* `if mcp_result.get("success")` of the result
reports_success(mcp_result, direct) == mcp_result.success

Via(channel, attempts) ==
    [k \in 1..Len(attempts) |->
        [to |-> attempts[k].to, text |-> attempts[k].text, ok |-> attempts[k].ok,
         via |-> channel]]

\* the reply of the model as _handle_send_message parses it: stripped, and
\* without a code fence stripped again
CleanSendReply(text) ==
    LET stripped == strip(text)
    IN  IF startswith(stripped, FenceJson) \/ startswith(stripped, Fence)
        THEN strip(Unfence(stripped)) ELSE stripped

\* a direct send whatever process_command reported
attempts_direct_send_always(mcp_result, recipient_phone) ==
    Truthy(recipient_phone)

\* `if not mcp_result.get("success")` and, under it, `if recipient_phone and
\* whatsapp_token and phone_number_id`; the credentials were checked before
\* process_command was called
attempts_direct_send(mcp_result, recipient_phone) ==
    ~mcp_result.success /\ Truthy(recipient_phone)

\* _handle_send_message.  creds: whether a WhatsApp token and phone number id
\* are configured; the outcomes are those of the primary send, of the
\* store's add and of the direct send.
handle_send_message(user_input, creds, d, llmExtract, llmPolish, st, clock, sendOutcome, addOutcome, directOutcome) ==
    Only({
    LET info      == InfoOf(message_info)
        professional_message == make_message_professional(info.message_to_send, llmPolish)
        resolved_name   == strip(info.resolved_recipient_name)
        resolved_number == strip(info.resolved_recipient_number)
        explicit_number == strip(info.recipient_number)
        first_phone == IF Truthy(resolved_number) THEN resolved_number
                       ELSE IF Truthy(resolved_name) THEN AliasGet(al, lower(resolved_name))
                       ELSE NoneVal
        by_name   == AliasGet(al, lower(info.recipient_name))
        recipient_phone == IF Truthy(first_phone) THEN first_phone
                           ELSE IF Truthy(by_name) THEN by_name
                           ELSE IF Truthy(explicit_number) THEN explicit_number
                           ELSE NoneVal
        target_for_command == IF Truthy(resolved_name) THEN resolved_name
                              ELSE IF Truthy(info.recipient_name) THEN info.recipient_name
                              ELSE IF Truthy(recipient_phone) THEN recipient_phone
                              ELSE <<>>
        send_command == <<"s", "e", "n", "d", " ", DQ>> \o professional_message
                        \o <<DQ, " ", "t", "o", " ">> \o target_for_command
        mcp       == IF Falsy(message_info) THEN [ret |-> NoCommand.ret, sent |-> <<>>, store |-> st]
                     ELSE Only({m : m \in {process_command(send_command, al, Token, BusinessId,
                                                            st, clock, sendOutcome, addOutcome)}})
        direct    == IF attempts_direct_send(mcp.ret, recipient_phone)
                     THEN <<Attempt(recipient_phone, professional_message, directOutcome)>>
                     ELSE <<>>
        sent      == Via("primary", mcp.sent) \o Via("fallback", direct)
        called    == Commanded(mcp.ret, send_command, professional_message, target_for_command)
        failed(label) == Handled(Result(FALSE, Resp(label), "send_message_failed"),
                                 <<>>, st, NoCommand, NoneVal)
    IN  IF llmExtract.raised THEN failed("Error sending message")
        ELSE IF Falsy(message_info)
        THEN (IF HasQuotaSignature(response)
              THEN failed("the AI reply service is temporarily unavailable")
              ELSE failed("I couldn't understand who to send the message to"))
        ELSE IF message_info.kind # "dict" THEN failed("Error sending message")
        ELSE IF ~JsonTruthy(info.is_valid_request)
        THEN failed("I couldn't understand who you want to send a message to")
        ELSE IF ~creds THEN failed("WhatsApp credentials are not configured")
        ELSE IF reports_success(mcp.ret, direct)
        THEN Detailed(Handled(Result(TRUE, Resp("Message sent"), "send_message"),
                              sent, mcp.store, called, recipient_phone),
                      SentDetails(IF Truthy(resolved_name) THEN resolved_name
                                  ELSE info.recipient_name,
                                  recipient_phone, professional_message))
        ELSE Detailed(Handled(Result(FALSE, Resp("Failed to send message"), "send_message_failed"),
                              sent, mcp.store, called, recipient_phone),
                      FailedDetails(IF mcp.ret.success THEN NoFallback
                                    ELSE FallbackOutcome(direct, recipient_phone)))
    : al \in {BuildAliases(get_all_contacts_names(d), <<>>)},
      response \in {CleanSendReply(llmExtract.text)},
      message_info \in {ParseReply(CleanSendReply(llmExtract.text))} })

\* contact_service.search_contact_by_name: the first phone whose name is the
\* name, ignoring case and surrounding whitespace of the name asked for
search_contact_by_name(d, name) ==
    LET hits == {i \in 1..Len(d) :
                    lower(IF Truthy(d[i].name) THEN d[i].name ELSE <<>>) = strip(lower(name))}
    IN  IF hits = {} THEN NoneVal
        ELSE d[CHOOSE i \in hits : \A k \in hits : i <= k].key

\* the link of the meeting and the default invitation
JoinLine == <<"\n", "\n", "<Join: meet_link>">>

DefaultInvite == <<"<Hi, I've scheduled our meeting>">> \o JoinLine

\* _handle_schedule_meeting.  googleOutcome: whether a meeting could be
\* created (create_meeting or create_business_meeting) or the creator raised.
handle_schedule_meeting(user_input, creds, d, llmExtract, st, googleOutcome, sendOutcome) ==
    LET stripped  == strip(llmExtract.text)
        response  == Unfence(stripped)
        direct    == json_loads(response)
        meeting_info == ParseReply(response)
        info      == InfoOf(meeting_info)
        resolved_name   == info.resolved_recipient_name
        resolved_number == info.resolved_recipient_number
        contact_name    == info.contact_name
        contact_number  == info.contact_number
        by_resolved == search_contact_by_name(d, resolved_name)
        by_contact  == search_contact_by_name(d, contact_name)
        recipient_phone ==
            IF Truthy(resolved_number) /\ Truthy(strip(resolved_number)) THEN strip(resolved_number)
            ELSE IF Truthy(contact_number) /\ Truthy(strip(contact_number)) THEN strip(contact_number)
            ELSE IF Truthy(resolved_name)
                 THEN (IF Truthy(by_resolved) THEN by_resolved
                       ELSE IF Truthy(by_contact) THEN by_contact
                       ELSE resolved_name)
            ELSE IF Truthy(by_contact) THEN by_contact
            ELSE contact_name
        draft     == info.draft_message
        invite    == IF Truthy(draft) /\ Truthy(strip(draft)) THEN strip(draft) \o JoinLine
                     ELSE DefaultInvite
        sent      == IF Truthy(recipient_phone) /\ creds
                     THEN Via("invite", <<Attempt(recipient_phone, invite, sendOutcome)>>)
                     ELSE <<>>
        failed(label) == Handled(Result(FALSE, Resp(label), "schedule_meeting_failed"),
                                 <<>>, st, NoCommand, NoneVal)
    IN  IF llmExtract.raised THEN failed("Error scheduling meeting")
        ELSE IF ~direct.ok /\ Falsy(meeting_info)
        THEN failed("I couldn't understand the meeting details. Please specify who and when.")
        ELSE IF meeting_info.kind # "dict" THEN failed("Error scheduling meeting")
        ELSE IF ~JsonTruthy(info.is_valid_request)
        THEN failed("I couldn't understand the meeting details. Please specify who, when, and what time.")
        ELSE IF googleOutcome = "error" THEN failed("Error scheduling meeting")
        ELSE Handled(Result(TRUE, Resp("Meeting scheduled"), "schedule_meeting"),
                     sent, st, NoCommand, recipient_phone)

\* _handle_general_chat: the model's text, a fixed text when it raises
handle_general_chat(user_input, llmChat, st) ==
    Handled(Result(TRUE,
                   IF llmChat.raised THEN Resp("I'm here to help!") ELSE llmChat.text,
                   "general_chat"),
            <<>>, st, NoCommand, NoneVal)

\* _route_action: intent_analysis.get raises AttributeError when the model's
\* JSON was not an object
route_action(intent_analysis, req_, d, st, clock) ==
    IF intent_analysis.kind # "dict"
    THEN [raised |-> TRUE,
          handled |-> Handled(Result(FALSE, <<>>, "none"), <<>>, st, NoCommand, NoneVal)]
    ELSE IF intent_analysis.intent = "send_message"
    THEN [raised |-> FALSE,
          handled |-> handle_send_message(req_.user_input, req_.creds, d, req_.llmHandler,
                                          req_.llmPolish, st, clock, req_.sendOutcome,
                                          req_.addOutcome, req_.directOutcome)]
    ELSE IF intent_analysis.intent = "schedule_meeting"
    THEN [raised |-> FALSE,
          handled |-> handle_schedule_meeting(req_.user_input, req_.creds, d, req_.llmHandler,
                                              st, req_.googleOutcome, req_.sendOutcome)]
    ELSE [raised |-> FALSE,
          handled |-> handle_general_chat(req_.user_input, req_.llmHandler, st)]

\* process_user_input as far as the first call of the model: the user turn
begin_user_input(hist, user_input) == Append(hist, UserTurn(user_input))

\* process_user_input without its except branch
complete_user_input_uncaught(hist, req_, d, st, clock) ==
    Only({
        IF routed.raised
        THEN [history |-> hist, ret |-> routed.handled.ret, escaped |-> TRUE,
              sent |-> <<>>, store |-> st, mcp |-> NoCommand, phone |-> NoneVal,
              details |-> NoDetails]
        ELSE [history |-> Append(hist, AgentTurn(routed.handled.ret.response,
                                                 routed.handled.ret.action_type)),
              ret |-> routed.handled.ret, escaped |-> FALSE,
              sent |-> routed.handled.sent, store |-> routed.handled.store,
              mcp |-> routed.handled.mcp, phone |-> routed.handled.phone,
              details |-> routed.handled.details]
    : routed \in {route_action(analyze_intent(req_.user_input, req_.llmIntent),
                               req_, d, st, clock)} })

\* process_user_input whose except branch returns the error result without
\* the error turn
complete_user_input_silent(hist, req_, d, st, clock) ==
    Only({
        IF routed.raised
        THEN [history |-> hist,
              ret |-> Result(FALSE, Resp("Sorry, I encountered an error"), "error"),
              escaped |-> FALSE,
              sent |-> <<>>, store |-> st, mcp |-> NoCommand, phone |-> NoneVal,
              details |-> NoDetails]
        ELSE [history |-> Append(hist, AgentTurn(routed.handled.ret.response,
                                                 routed.handled.ret.action_type)),
              ret |-> routed.handled.ret, escaped |-> FALSE,
              sent |-> routed.handled.sent, store |-> routed.handled.store,
              mcp |-> routed.handled.mcp, phone |-> routed.handled.phone,
              details |-> routed.handled.details]
    : routed \in {route_action(analyze_intent(req_.user_input, req_.llmIntent),
                               req_, d, st, clock)} })

\* process_user_input from there: intent, handler, the agent turn and the
\* result; an exception on the way gives the error turn and the error result
complete_user_input(hist, req_, d, st, clock) ==
    Only({
        IF routed.raised
        THEN [history |-> Append(hist, AgentTurn(Resp("Sorry, I encountered an error"), "error")),
              ret |-> Result(FALSE, Resp("Sorry, I encountered an error"), "error"),
              escaped |-> FALSE,
              sent |-> <<>>, store |-> st, mcp |-> NoCommand, phone |-> NoneVal,
              details |-> NoDetails]
        ELSE [history |-> Append(hist, AgentTurn(routed.handled.ret.response,
                                                 routed.handled.ret.action_type)),
              ret |-> routed.handled.ret, escaped |-> FALSE,
              sent |-> routed.handled.sent, store |-> routed.handled.store,
              mcp |-> routed.handled.mcp, phone |-> routed.handled.phone,
              details |-> routed.handled.details]
    : routed \in {route_action(analyze_intent(req_.user_input, req_.llmIntent),
                               req_, d, st, clock)} })

process_user_input(hist, req_, d, st, clock) ==
    complete_user_input(begin_user_input(hist, req_.user_input), req_, d, st, clock)

(***************************************************************************)
(* Requests to /api/ai-agent/chat: the message, whether WhatsApp           *)
(* credentials are configured, what the model answers to the three prompts *)
(* and how the services behave.                                            *)
(***************************************************************************)
SendInput == <<"s", "e", "n", "d", " ", "h", "i", " ", "t", "o", " ", "j", "o", "h", "n">>

MeetInput == <<"m", "e", "e", "t", " ", "w", "i", "t", "h", " ", "j", "o", "h", "n">>

ChatInput == <<"h", "e", "l", "l", "o">>

ObjectText(b) == <<"{", b, "}">>

Fenced(t) == FenceJson \o <<"\n">> \o t \o <<"\n">> \o Fence

\* a fence that is never closed
Unclosed(t) == FenceJson \o <<"\n">> \o t

\* an object behind a few words
Wrapped(t) == <<"o", "k", ":", " ">> \o t

QuotaText == <<"Q", "u", "o", "t", "a", " ", "e", "x", "c", "e", "e", "d", "e", "d">>

SorryText == <<"s", "o", "r", "r", "y">>

ListText == <<"[", "1", "]">>

SendReplies ==
    { LLMRaise,
      Said(Fenced(ObjectText("<to:john>"))),
      Said(Wrapped(ObjectText("<to:john>"))),
      Said(Unclosed(ObjectText("<to:john>"))),
      Said(ObjectText("<to:jhon>")),
      Said(ObjectText("<to:invalid>")),
      Said(ObjectText("<to:john,valid:'false'>")),
      Said(QuotaText),
      Said(SorryText),
      Said(<<"{", "}">>),
      Said(ListText) }

\* replies to the send prompt that get as far as the credentials
SendableReplies ==
    {r \in SendReplies :
        /\ ~r.raised
        /\ ParseReply(CleanSendReply(r.text)).kind = "dict"
        /\ JsonTruthy(InfoOf(ParseReply(CleanSendReply(r.text))).is_valid_request)}

MeetReplies ==
    { LLMRaise,
      Said(Fenced(ObjectText("<meet:john>"))),
      Said(ObjectText("<meet:nobody>")),
      Said(ObjectText("<meet:invalid>")),
      Said(SorryText),
      Said(ListText) }

ChatReplies == { LLMRaise, Said(<<"h", "e", "y">>) }

PolishReplies == { LLMRaise, Said(<<DQ, "h", "i", DQ>>), Said(TextQuoted) }

BaseRequest ==
    [user_input |-> ChatInput, creds |-> TRUE,
     llmIntent |-> LLMRaise, llmHandler |-> LLMRaise, llmPolish |-> LLMRaise,
     sendOutcome |-> "ok", addOutcome |-> "ok", directOutcome |-> "ok",
     googleOutcome |-> "ok"]

\* requests to send a message; what is never looked at is left as in
\* BaseRequest
SendRequests ==
    { [BaseRequest EXCEPT !.user_input = SendInput, !.llmIntent = i, !.llmHandler = h] :
        i \in {LLMRaise, Said(Fenced(ObjectText("<intent:send>")))},
        h \in SendReplies }
    \cup
    { [BaseRequest EXCEPT !.user_input = SendInput, !.llmHandler = h, !.creds = FALSE] :
        h \in SendableReplies }
    \cup
    { [BaseRequest EXCEPT !.user_input = SendInput, !.llmHandler = h, !.llmPolish = p,
                          !.sendOutcome = so, !.addOutcome = ao] :
        h \in SendableReplies, p \in PolishReplies,
        so \in SendOutcomes, ao \in StoreOutcomes }
    \cup
    { [BaseRequest EXCEPT !.user_input = SendInput, !.llmHandler = h,
                          !.sendOutcome = "error", !.directOutcome = "error"] :
        h \in SendableReplies }

\* replies to the meeting prompt that get as far as the calendar
SchedulableReplies ==
    {r \in MeetReplies :
        /\ ~r.raised
        /\ ParseReply(Unfence(strip(r.text))).kind = "dict"
        /\ JsonTruthy(InfoOf(ParseReply(Unfence(strip(r.text)))).is_valid_request)}

MeetRequests ==
    { [BaseRequest EXCEPT !.user_input = MeetInput, !.llmIntent = i, !.llmHandler = h] :
        i \in {LLMRaise, Said(ObjectText("<intent:meet>"))},
        h \in MeetReplies }
    \cup
    { [BaseRequest EXCEPT !.user_input = MeetInput, !.llmHandler = h,
                          !.creds = c, !.googleOutcome = go, !.sendOutcome = so] :
        h \in SchedulableReplies, c \in BOOLEAN, go \in StoreOutcomes, so \in SendOutcomes }

ChatRequests ==
    { [BaseRequest EXCEPT !.llmIntent = i, !.llmHandler = h] :
        i \in {LLMRaise, Said(ObjectText("<intent:chat>")), Said(ObjectText("<intent:other>")),
               Said(ListText)},
        h \in ChatReplies }

\* a message that the send patterns and the meeting patterns both match
BothInput ==
    <<"t", "e", "l", "l", " ", "b", "o", " ", "t", "o", " ", "m", "e", "e", "t", " ",
      "w", "i", "t", "h", " ", "j", "o", "h", "n">>

\* requests whose classification and wording disagree
RoutingRequests ==
    { [BaseRequest EXCEPT !.user_input = BothInput],
      [BaseRequest EXCEPT !.user_input = BothInput, !.llmIntent = Said(SorryText)],
      [BaseRequest EXCEPT !.user_input = SendInput,
                          !.llmIntent = Said(ObjectText("<intent:meet>"))],
      [BaseRequest EXCEPT !.user_input = MeetInput,
                          !.llmIntent = Said(ObjectText("<intent:other>"))],
      [BaseRequest EXCEPT !.user_input = MeetInput, !.llmIntent = Said(<<"{", "}">>)],
      [BaseRequest EXCEPT !.user_input = SendInput, !.llmIntent = Said(ListText)] }

Requests == SendRequests \cup MeetRequests \cup ChatRequests \cup RoutingRequests

\* contacts.json when the process starts
AgentFiles ==
    { [ok |-> TRUE, entries |-> <<>>],
      [ok |-> TRUE,
       entries |-> <<[key |-> IdJohn, name |-> NameJohnDoe, user_defined |-> TRUE]>>],
      [ok |-> TRUE,
       entries |-> <<[key |-> IdJohnny, name |-> <<"B", "o">>, user_defined |-> TRUE],
                     [key |-> IdJohn, name |-> NameJohnDoe, user_defined |-> TRUE]>>] }

\* ai_agent_chat: one call of process_user_input.  Nothing in it suspends,
\* so the request is handled in one step of the event loop.
Chat(r) ==
    /\ chats < MaxChats
    /\ \E p \in {process_user_input(history, r, contacts, store, now)} :
           /\ history' = p.history
           /\ store' = p.store
           /\ sends' = sends \o [k \in 1..Len(p.sent) |->
                                    Attempt(p.sent[k].to, p.sent[k].text,
                                            IF p.sent[k].ok THEN "ok" ELSE "error")]
           /\ out' = [op |-> "chat", user_input |-> r.user_input, reply |-> r.llmHandler,
                      classified |-> r.llmIntent,
                      ret |-> p.ret, escaped |-> p.escaped,
                      sent |-> p.sent, mcp |-> p.mcp, phone |-> p.phone,
                      details |-> p.details,
                      appended |-> SubSeq(p.store, Len(store) + 1, Len(p.store))]
    /\ chats' = chats + 1
    /\ UNCHANGED <<now, agents, active>>

\* clear_ai_agent_history: clear_conversation_history
ClearHistory ==
    /\ active = 0
    /\ history # <<>>
    /\ history' = <<>>
    /\ out' = [op |-> "clear"]
    /\ UNCHANGED <<store, sends, now, agents, active, chats>>

ChatInit ==
    /\ disk \in AgentFiles
    /\ contacts = load_contacts(disk)
    /\ last = [op |-> "init", phone |-> NoneVal, name |-> NoneVal,
               ret |-> NoneVal, rule |-> 0, write |-> "none", raised |-> FALSE]
    /\ failedWrites = 0
    /\ track = Idle
    /\ AgentIdle

(***************************************************************************)
(* Agent requests in flight together.  ai_agent_chat is a coroutine on the *)
(* event loop; a request runs from one suspension to the next without      *)
(* another running in between.  process_user_input appends the user turn,  *)
(* awaits the model, the handler and the services, and appends the agent   *)
(* turn.                                                                   *)
(***************************************************************************)
YieldsInsideAgent_always == TRUE

\* whether process_user_input suspends between its two appends: every
\* coroutine it awaits (generate_response, process_command, send_message,
\* add_message, create_business_meeting) calls blocking functions and awaits
\* no future
YieldsInsideAgent == FALSE

OverlapRequests ==
    { [BaseRequest EXCEPT !.llmHandler = Said(<<"h", "e", "y">>)],
      [BaseRequest EXCEPT !.llmIntent = Said(ListText)],
      [BaseRequest EXCEPT !.user_input = SendInput,
                          !.llmHandler = Said(ObjectText("<to:john>"))],
      [BaseRequest EXCEPT !.user_input = SendInput,
                          !.llmHandler = Said(ObjectText("<to:john>")),
                          !.sendOutcome = "error", !.directOutcome = "error"],
      [BaseRequest EXCEPT !.user_input = MeetInput,
                          !.llmHandler = Said(ObjectText("<meet:john>"))] }

\* the handler starts, or resumes, and process_user_input appends the user turn
AgentStart(t, r) ==
    /\ agents[t].pc = "none"
    /\ active = 0
    /\ history' = begin_user_input(history, r.user_input)
    /\ agents' = [agents EXCEPT ![t] = [pc |-> "started", req |-> r]]
    /\ active' = IF YieldsInsideAgent THEN 0 ELSE t
    /\ UNCHANGED <<store, sends, out, now, chats>>

\* the rest of process_user_input; the handler then reaches `await sio.emit`
AgentFinish(t) ==
    /\ agents[t].pc = "started"
    /\ active = t \/ (YieldsInsideAgent /\ active = 0)
    /\ \E p \in {complete_user_input(history, agents[t].req, contacts, store, now)} :
           /\ history' = p.history
           /\ store' = p.store
           /\ sends' = sends \o [k \in 1..Len(p.sent) |->
                                    Attempt(p.sent[k].to, p.sent[k].text,
                                            IF p.sent[k].ok THEN "ok" ELSE "error")]
           /\ out' = [op |-> "chat", user_input |-> agents[t].req.user_input,
                      reply |-> agents[t].req.llmHandler, ret |-> p.ret,
                      classified |-> agents[t].req.llmIntent,
                      escaped |-> p.escaped, sent |-> p.sent, mcp |-> p.mcp,
                      phone |-> p.phone, details |-> p.details,
                      appended |-> SubSeq(p.store, Len(store) + 1, Len(p.store))]
           /\ agents' = [agents EXCEPT ![t] = [pc |-> "done", req |-> agents[t].req,
                                               ret |-> p.ret]]
    /\ active' = 0
    /\ UNCHANGED <<now, chats>>

(***************************************************************************)
(* Concurrent webhook requests.  receive_webhook is a coroutine on the one *)
(* event loop of the process: a task runs from one await to the next       *)
(* without another task running in between.  The handler awaits the        *)
(* request body, then calls parse_webhook_payload, which looks the sender  *)
(* up in the directory and stores a new entry, then awaits sio.emit and    *)
(* the conversation store.                                                 *)
(***************************************************************************)
Tasks == 1..NumRequests

NameYan == <<"Y", "a", "n">>

\* profile names of concurrent first messages
RaceNames == {NameZed, NameYan}

\* senders of concurrent messages
RacePhones == {PhoneA, PhoneD}

YieldsInsideUpdate_always == TRUE

\* whether update_contact_from_webhook suspends between its lookup and its
\* store: it is a plain function with no await, and so is _save_contacts
YieldsInsideUpdate == FALSE

NoRequest == [pc |-> "none", phone |-> NoneVal, name |-> NoneVal, rule |-> 0,
              ret |-> NoneVal, user_defined |-> FALSE]

RaceIdle ==
    /\ req = [t \in Tasks |-> NoRequest]
    /\ running = 0

\* `payload = await request.json()` returns: the task runs
Resume(t) ==
    /\ req[t].pc = "json"
    /\ running = 0
    /\ running' = t
    /\ req' = [req EXCEPT ![t].pc = "lookup"]
    /\ UNCHANGED dirVars

\* update_contact_from_webhook, rules 1-3 as far as the decision
Lookup(t) ==
    /\ req[t].pc = "lookup"
    /\ running = t
    /\ LET r  == update_contact_from_webhook(contacts, req[t].phone, req[t].name)
           nk == normalize_phone(req[t].phone)
       IN  req' = [req EXCEPT ![t].pc = "store",
                              ![t].rule = r.rule,
                              ![t].ret = r.ret,
                              ![t].user_defined =
                                  IF r.write THEN Entry(r.contacts, nk).user_defined
                                  ELSE FALSE]
    /\ running' = IF YieldsInsideUpdate THEN 0 ELSE t
    /\ UNCHANGED dirVars

\* update_contact_from_webhook, the store of rules 2 and 3 and the return;
\* the handler then reaches `await sio.emit(...)`
Store(t) ==
    /\ req[t].pc = "store"
    /\ running = t \/ (YieldsInsideUpdate /\ running = 0)
    /\ contacts' = IF req[t].rule \in {2, 3}
                   THEN DictSet(contacts, normalize_phone(req[t].phone),
                                req[t].ret, req[t].user_defined)
                   ELSE contacts
    /\ disk' = IF req[t].rule \in {2, 3}
               THEN save_contacts(disk, contacts', "ok").file
               ELSE disk
    /\ req' = [req EXCEPT ![t].pc = "emit"]
    /\ running' = 0
    /\ UNCHANGED <<last, failedWrites, track>>

\* the awaits of the rest of the handler return and it answers {"status": "ok"}
Finish(t) ==
    /\ req[t].pc = "emit"
    /\ running = 0
    /\ req' = [req EXCEPT ![t].pc = "done"]
    /\ UNCHANGED <<running, contacts, disk, last, failedWrites, track>>

RaceInit ==
    /\ DirInit
    /\ ParseIdle
    /\ ResolveIdle
    /\ AgentIdle
    /\ req \in [Tasks -> {[pc |-> "json", phone |-> p, name |-> n, rule |-> 0,
                           ret |-> NoneVal, user_defined |-> FALSE] :
                          p \in RacePhones, n \in RaceNames}]
    /\ running = 0

NextRace ==
    \E t \in Tasks :
        \/ Resume(t) /\ UNCHANGED <<parseVars, resolveVars, agentVars>>
        \/ Lookup(t) /\ UNCHANGED <<parseVars, resolveVars, agentVars>>
        \/ Store(t) /\ UNCHANGED <<parseVars, resolveVars, agentVars>>
        \/ Finish(t) /\ UNCHANGED <<parseVars, resolveVars, agentVars>>

SpecRace == RaceInit /\ [][NextRace]_vars

(***************************************************************************)
(* Spec: the contact directory with a working file system.                 *)
(***************************************************************************)
otherVars == <<req, running, command, cmdTail, nTokens, parsed,
               aliases, target, resolved,
               store, sends, out, now, history, agents, active, chats>>

Init == DirInit /\ RaceIdle /\ ParseIdle /\ ResolveIdle /\ AgentIdle

Next ==
    \/ SetName(Phones, {"ok"}) /\ UNCHANGED otherVars
    \/ RemoveName(Phones, {"ok"}) /\ UNCHANGED otherVars
    \/ LearnFromInbound(Phones, {"ok"}) /\ UNCHANGED otherVars
    \/ GetName(Phones) /\ UNCHANGED otherVars
    \/ Restart /\ UNCHANGED otherVars

Spec == Init /\ [][Next]_vars

(***************************************************************************)
(* SpecDurable: the contact directory when writes of contacts.json may     *)
(* fail.                                                                   *)
(***************************************************************************)
NextDurable ==
    \/ SetName(DurablePhones, SaveOutcomes) /\ UNCHANGED otherVars
    \/ RemoveName(DurablePhones, SaveOutcomes) /\ UNCHANGED otherVars
    \/ LearnFromInbound(DurablePhones, SaveOutcomes) /\ UNCHANGED otherVars
    \/ GetName(DurablePhones) /\ UNCHANGED otherVars
    \/ Restart /\ UNCHANGED otherVars

SpecDurable == Init /\ [][NextDurable]_vars

(***************************************************************************)
(* SpecParse: send commands typed and parsed.                              *)
(***************************************************************************)
DirFresh == DirInit /\ disk.entries = <<>>

InitParse ==
    /\ DirFresh
    /\ RaceIdle
    /\ ResolveIdle
    /\ AgentIdle
    /\ command \in CommandHeads
    /\ cmdTail \in CommandTails
    /\ nTokens = 0
    /\ parsed = NotParsed

NextParse ==
    \/ \E tok \in CommandTokens : Type(tok) /\ UNCHANGED <<dirVars, raceVars, resolveVars, agentVars>>
    \/ Submit /\ UNCHANGED <<dirVars, raceVars, resolveVars, agentVars>>

SpecParse == InitParse /\ [][NextParse]_vars

(***************************************************************************)
(* SpecResolve: alias maps built and recipients resolved.                  *)
(***************************************************************************)
InitResolve == DirFresh /\ RaceIdle /\ ParseIdle /\ ResolveIdle /\ AgentIdle

NextResolve ==
    \/ \E k \in AliasKeys, id \in ContactIds :
           AddAlias(k, id) /\ UNCHANGED <<dirVars, raceVars, parseVars, agentVars>>
    \/ \E name \in Targets :
           Resolve(name) /\ UNCHANGED <<dirVars, raceVars, parseVars, agentVars>>

SpecResolve == InitResolve /\ [][NextResolve]_vars

(***************************************************************************)
(* SpecCommand: commands posted to /api/mcp/send.                          *)
(***************************************************************************)
InitCommand == DirFresh /\ RaceIdle /\ ParseIdle /\ ResolveIdle /\ AgentIdle

NextCommand ==
    \E cmd \in Commands, al \in AliasMaps, so \in SendOutcomes, ao \in StoreOutcomes :
        ProcessCommand(cmd, al, so, ao)
        /\ UNCHANGED <<dirVars, raceVars, parseVars, resolveVars>>

SpecCommand == InitCommand /\ [][NextCommand]_vars

(***************************************************************************)
(* SpecStore: the Conversation Store's operations.                         *)
(***************************************************************************)
InitStore == DirFresh /\ RaceIdle /\ ParseIdle /\ ResolveIdle /\ StoreInit

NextStore ==
    \/ Tick /\ UNCHANGED <<dirVars, raceVars, parseVars, resolveVars>>
    \/ \E m \in Appends, o \in StoreOutcomes :
           AddMessage(m, o) /\ UNCHANGED <<dirVars, raceVars, parseVars, resolveVars>>
    \/ \E c \in {ContactA, ContactB}, l \in Limits, g \in GetOrders, o \in StoreOutcomes :
           History(c, l, g, o) /\ UNCHANGED <<dirVars, raceVars, parseVars, resolveVars>>
    \/ \E c \in {ContactA, ContactB, NoneVal}, e \in BOOLEAN, o \in StoreOutcomes :
           Search(c, e, o) /\ UNCHANGED <<dirVars, raceVars, parseVars, resolveVars>>
    \/ \E o \in StoreOutcomes :
           ListContacts(o) /\ UNCHANGED <<dirVars, raceVars, parseVars, resolveVars>>

SpecStore == InitStore /\ [][NextStore]_vars

(***************************************************************************)
(* SpecChat: agent requests handled one after the other.                   *)
(***************************************************************************)
InitChat == ChatInit /\ RaceIdle /\ ParseIdle /\ ResolveIdle

NextChat ==
    \/ \E r \in Requests :
           Chat(r) /\ UNCHANGED <<dirVars, raceVars, parseVars, resolveVars>>
    \/ ClearHistory /\ UNCHANGED <<dirVars, raceVars, parseVars, resolveVars>>

SpecChat == InitChat /\ [][NextChat]_vars

(***************************************************************************)
(* SpecOverlap: agent requests in flight together.                         *)
(***************************************************************************)
NextOverlap ==
    \/ \E t \in AgentTasks, r \in OverlapRequests :
           AgentStart(t, r) /\ UNCHANGED <<dirVars, raceVars, parseVars, resolveVars>>
    \/ \E t \in AgentTasks :
           AgentFinish(t) /\ UNCHANGED <<dirVars, raceVars, parseVars, resolveVars>>
    \/ ClearHistory /\ UNCHANGED <<dirVars, raceVars, parseVars, resolveVars>>

SpecOverlap == InitChat /\ [][NextOverlap]_vars

(***************************************************************************)
(* The start and end of a calendar event.  A time is the string HH:MM the  *)
(* model extracted, a date is a day number, and an instant of an event is  *)
(* a date and a time as they are put into the RFC3339 string               *)
(* "<date>T<time>:00Z".                                                    *)
(***************************************************************************)
HoursPerDay == 24

MinutesPerHour == 60

\* duration_minutes=60 and the "60 mins default" of the event builders
DefaultDuration == 60

DigitOrder == <<"0", "1", "2", "3", "4", "5", "6", "7", "8", "9">>

DigitVal(c) == (CHOOSE i \in 1..10 : DigitOrder[i] = c) - 1

\* int(s) of a string of digits
RECURSIVE ToInt(_)
ToInt(s) ==
    IF s = <<>> THEN 0
    ELSE ToInt(SubSeq(s, 1, Len(s) - 1)) * 10 + DigitVal(s[Len(s)])

\* str(n) of a natural number
RECURSIVE ToStr(_)
ToStr(n) ==
    IF n < 10 THEN <<DigitOrder[n + 1]>>
    ELSE ToStr(n \div 10) \o <<DigitOrder[(n % 10) + 1]>>

\* f"{n:02d}"
Fmt02(n) == IF n < 10 THEN <<"0">> \o ToStr(n) ELSE ToStr(n)

\* f"{hh:02d}:{mm:02d}"
TimeStr(hh, mm) == Fmt02(hh) \o <<":">> \o Fmt02(mm)

\* hh, mm = map(int, t.split(':'))
SplitTime(t) ==
    LET colon == CHOOSE i \in 1..Len(t) : t[i] = ":" /\ \A j \in 1..(i - 1) : t[j] # ":"
    IN  <<ToInt(SubSeq(t, 1, colon - 1)), ToInt(SubSeq(t, colon + 1, Len(t)))>>

Instant(date, time) == [date |-> date, time |-> time]

\* _handle_schedule_meeting with google tokens in the request: event_details
meeting_event(date, time) ==
    LET hh     == SplitTime(time)[1]
        mm     == SplitTime(time)[2]
        end_hh == (hh + 1) % HoursPerDay
    IN  [start |-> Instant(date, time), end |-> Instant(date, TimeStr(end_hh, mm))]

\* handle_meeting_request with saved google tokens: event_details
inbound_meeting_event(date, time) ==
    LET hours     == SplitTime(time)[1]
        minutes   == SplitTime(time)[2]
        end_hours == hours + 1
    IN  [start |-> Instant(date, time), end |-> Instant(date, TimeStr(end_hours, minutes))]

\* create_business_meeting: strptime, + timedelta(minutes=duration_minutes),
\* isoformat
create_business_meeting(date, time, duration_minutes) ==
    LET perDay == HoursPerDay * MinutesPerHour
        begin  == date * perDay + SplitTime(time)[1] * MinutesPerHour + SplitTime(time)[2]
        stop   == begin + duration_minutes
    IN  [start |-> Instant(begin \div perDay,
                           TimeStr((begin % perDay) \div MinutesPerHour, begin % MinutesPerHour)),
         end   |-> Instant(stop \div perDay,
                           TimeStr((stop % perDay) \div MinutesPerHour, stop % MinutesPerHour))]

\* the start times HH:MM the model may extract, and the dates
MeetingMinutes == {0, 30}

MeetingTimes == {TimeStr(hh, mm) : hh \in 0..(HoursPerDay - 1), mm \in MeetingMinutes}

MeetingDates == {1, 2}

\* the agent schedules a meeting with the client's google tokens
BuildMeetingEvent(date, time) ==
    /\ out' = [op |-> "event", by |-> "agent", time |-> time,
               event |-> meeting_event(date, time)]
    /\ UNCHANGED <<store, sends, now, history, agents, active, chats>>

\* an inbound meeting request is handled with the saved google tokens
BuildInboundEvent(date, time) ==
    /\ out' = [op |-> "event", by |-> "inbound", time |-> time,
               event |-> inbound_meeting_event(date, time)]
    /\ UNCHANGED <<store, sends, now, history, agents, active, chats>>

\* either path without tokens: create_business_meeting
BuildBusinessMeeting(date, time) ==
    /\ out' = [op |-> "event", by |-> "business", time |-> time,
               event |-> create_business_meeting(date, time, DefaultDuration)]
    /\ UNCHANGED <<store, sends, now, history, agents, active, chats>>

(***************************************************************************)
(* SpecEvent: calendar events built for meetings.                          *)
(***************************************************************************)
InitEvent == DirFresh /\ RaceIdle /\ ParseIdle /\ ResolveIdle /\ AgentIdle

NextEvent ==
    \/ \E d \in MeetingDates, t \in MeetingTimes :
           BuildMeetingEvent(d, t) /\ UNCHANGED <<dirVars, raceVars, parseVars, resolveVars>>
    \/ \E d \in MeetingDates, t \in MeetingTimes :
           BuildInboundEvent(d, t) /\ UNCHANGED <<dirVars, raceVars, parseVars, resolveVars>>
    \/ \E d \in MeetingDates, t \in MeetingTimes :
           BuildBusinessMeeting(d, t) /\ UNCHANGED <<dirVars, raceVars, parseVars, resolveVars>>

SpecEvent == InitEvent /\ [][NextEvent]_vars

(***************************************************************************)
(* Inbound messages: GeminiService.handle_meeting_request, the webhook     *)
(* handler receive_webhook and AutoReplyMCP.process_incoming_message.  A   *)
(* date is a day number; the link of a created event is one element.       *)
(***************************************************************************)
\* s.replace(pat, '')
RECURSIVE RemoveAll(_, _)
RemoveAll(s, pat) ==
    IF Len(s) < Len(pat) \/ pat = <<>> THEN s
    ELSE IF SubSeq(s, 1, Len(pat)) = pat THEN RemoveAll(SubSeq(s, Len(pat) + 1, Len(s)), pat)
    ELSE <<Head(s)>> \o RemoveAll(Tail(s), pat)

meeting_keywords ==
    { <<"m", "e", "e", "t", "i", "n", "g">>,
      <<"s", "c", "h", "e", "d", "u", "l", "e">>,
      <<"a", "p", "p", "o", "i", "n", "t", "m", "e", "n", "t">>,
      <<"c", "a", "l", "l">>,
      <<"m", "e", "e", "t">>,
      <<"b", "o", "o", "k">>,
      <<"r", "e", "s", "e", "r", "v", "e">> }

time_keywords ==
    { <<"t", "o", "m", "o", "r", "r", "o", "w">>,
      <<"t", "o", "d", "a", "y">>,
      <<"p", "m">>,
      <<"a", "m">>,
      <<"o", SQ, "c", "l", "o", "c", "k">>,
      <<"t", "i", "m", "e">>,
      <<"a", "t">> }

\* the members of the object the model returns to the extraction prompt
NoMeetingInfo == [has_meeting |-> "absent", date |-> 0, time |-> NoneVal]

MeetingBodies ==
    [b \in {"<has_meeting:true>", "<has_meeting:true,time:'23:00'>",
            "<has_meeting:true,date:2,time:'09:30'>", "<has_meeting:'false'>",
            "<has_meeting:false>"} |->
        CASE b = "<has_meeting:true>" -> [NoMeetingInfo EXCEPT !.has_meeting = "true"]
          [] b = "<has_meeting:true,time:'23:00'>" ->
                [NoMeetingInfo EXCEPT !.has_meeting = "true", !.time = TimeStr(23, 0)]
          [] b = "<has_meeting:true,date:2,time:'09:30'>" ->
                [NoMeetingInfo EXCEPT !.has_meeting = "true", !.date = 2,
                                      !.time = TimeStr(9, 30)]
          [] b = "<has_meeting:'false'>" -> [NoMeetingInfo EXCEPT !.has_meeting = "'false'"]
          [] b = "<has_meeting:false>" -> [NoMeetingInfo EXCEPT !.has_meeting = "false"]]

\* json.loads on the replies to the extraction prompt
meeting_loads(text) ==
    LET t == strip(text)
    IN  IF Len(t) = 3 /\ t[1] = "{" /\ t[2] \in DOMAIN MeetingBodies /\ t[3] = "}"
        THEN [ok |-> TRUE, kind |-> "dict", info |-> MeetingBodies[t[2]]]
        ELSE IF t = <<"{", "}">>
        THEN [ok |-> TRUE, kind |-> "dict", info |-> NoMeetingInfo]
        ELSE IF t = <<"[", "1", "]">>
        THEN [ok |-> TRUE, kind |-> "list", info |-> NoMeetingInfo]
        ELSE [ok |-> FALSE, kind |-> "none", info |-> NoMeetingInfo]

\* re.search(r'\{[^}]*"has_meeting"[^}]*\}', response): the first object
\* with a has_meeting member; <<>> without a match
SearchMeetingObject(response) ==
    LET at == {i \in 1..(Len(response) - 2) :
                  /\ response[i] = "{"
                  /\ response[i + 1] \in DOMAIN MeetingBodies
                  /\ response[i + 2] = "}"}
        first == CHOOSE i \in at : \A k \in at : i <= k
    IN  IF at = {} THEN <<>> ELSE SubSeq(response, first, first + 2)

\* the keyword detection of extract_meeting_info's except branch
keyword_meeting_info(message) ==
    LET message_lower == lower(message)
        has_meeting_keyword == \E k \in meeting_keywords : IsSub(k, message_lower)
        has_time_keyword == \E k \in time_keywords : IsSub(k, message_lower)
    IN  [ok |-> TRUE, kind |-> "dict",
         info |-> [NoMeetingInfo EXCEPT
                     !.has_meeting = IF has_meeting_keyword /\ has_time_keyword
                                     THEN "true" ELSE "false"]]

\* extract_meeting_info: the object of the model's reply without its
\* fences, the keyword detection when the model raises or the reply is no
\* JSON
extract_meeting_info(message, llm) ==
    LET response == strip(RemoveAll(RemoveAll(strip(llm.text), FenceJson), Fence))
        json_match == SearchMeetingObject(response)
        loaded == IF json_match # <<>> THEN meeting_loads(json_match)
                  ELSE meeting_loads(response)
    IN  IF llm.raised \/ ~loaded.ok THEN keyword_meeting_info(message) ELSE loaded

\* re.search(r'(\d{1,2})\s*(pm|am)', s): the matches that begin at i with n
\* digits, as the position of the am or pm
TimeMatches(s, i, n) ==
    {j \in (i + n)..(Len(s) - 1) :
        /\ \A k \in i..(i + n - 1) : s[k] \in Digits
        /\ \A k \in (i + n)..(j - 1) : s[k] \in Whitespace
        /\ SubSeq(s, j, j + 1) \in {<<"p", "m">>, <<"a", "m">>}}

\* the hour of the match that begins at i with n digits
hour_of_match(s, i, n) ==
    LET j == CHOOSE k \in TimeMatches(s, i, n) : TRUE
        hour == ToInt(SubSeq(s, i, i + n - 1))
        is_pm == SubSeq(s, j, j + 1) = <<"p", "m">>
    IN  IF is_pm /\ hour # 12 THEN TimeStr(hour + 12, 0)
        ELSE IF ~is_pm /\ hour = 12 THEN TimeStr(0, 0)
        ELSE TimeStr(hour, 0)

\* the time of day written in the message, <<>> when there is none: the
\* leftmost match, two digits before one
time_from_message(message) ==
    Only({ Only({ IF starts = {} THEN <<>>
                  ELSE Only({ hour_of_match(s, i, IF TimeMatches(s, i, 2) # {} THEN 2 ELSE 1)
                              : i \in {CHOOSE k \in starts : \A m \in starts : k <= m} })
                  : starts \in {{i \in 1..Len(s) :
                                   TimeMatches(s, i, 2) \cup TimeMatches(s, i, 1) # {}}} })
           : s \in {lower(message)} })

\* "17:00": the time of a meeting nobody gave a time for
DefaultTime == TimeStr(17, 0)

\* datetime.strptime(time_str, "%H:%M") does not raise
ParsesAsTime(t) ==
    SplitTime(t)[1] < HoursPerDay /\ SplitTime(t)[2] < MinutesPerHour

\* _format_time_for_message: "%I:%M %p", the string itself when it is no time
format_time_for_message(t) ==
    LET hh == SplitTime(t)[1]
        mm == SplitTime(t)[2]
    IN  IF ~ParsesAsTime(t) THEN t
        ELSE TimeStr(((hh + 11) % 12) + 1, mm) \o <<" ">>
                \o (IF hh < 12 THEN <<"A", "M">> ELSE <<"P", "M">>)

\* _format_date_for_message
format_date_for_message(date, today) ==
    IF date = today THEN <<"T", "o", "d", "a", "y">>
    ELSE IF date = today + 1 THEN <<"T", "o", "m", "o", "r", "r", "o", "w">>
    ELSE <<"d", "a", "y", " ">> \o ToStr(date)

prefixes_to_remove ==
    << <<"H", "e", "r", "e", SQ, "s", " ", "a", " ", "m", "e", "e", "t", "i", "n", "g", " ",
        "i", "n", "v", "i", "t", "e", ":">>,
      <<"M", "e", "e", "t", "i", "n", "g", " ", "i", "n", "v", "i", "t", "a", "t", "i",
        "o", "n", ":">>,
      <<"I", "n", "v", "i", "t", "e", " ", "m", "e", "s", "s", "a", "g", "e", ":">>,
      <<"H", "e", "r", "e", SQ, "s", " ", "t", "h", "e", " ", "i", "n", "v", "i", "t", "e",
        ":">>,
      <<"M", "e", "e", "t", "i", "n", "g", " ", "i", "n", "v", "i", "t", "e", ":">>,
      <<"D", "r", "a", "f", "t", " ", "i", "n", "v", "i", "t", "e", ":">>,
      <<"P", "e", "r", "f", "e", "c", "t", "!", " ", "H", "e", "r", "e", SQ, "s", " ", "w",
        "h", "a", "t", " ", "I", SQ, "d", " ", "s", "e", "n", "d", ":">>,
      <<"I", SQ, "d", " ", "r", "e", "s", "p", "o", "n", "d", " ", "w", "i", "t", "h", ":">>,
      <<"H", "e", "r", "e", SQ, "s", " ", "a", " ", "c", "a", "s", "u", "a", "l", " ", "c",
        "o", "n", "f", "i", "r", "m", "a", "t", "i", "o", "n", ":">>,
      <<"S", "u", "r", "e", "!", " ", "H", "e", "r", "e", SQ, "s", " ", "a", " ", "q", "u",
        "i", "c", "k">>,
      <<"H", "e", "r", "e", SQ, "s", " ", "t", "h", "e", " ", "c", "o", "n", "f", "i", "r",
        "m", "a", "t", "i", "o", "n", ":">>,
      <<"M", "e", "e", "t", "i", "n", "g", " ", "c", "o", "n", "f", "i", "r", "m", "a",
        "t", "i", "o", "n", ":">>,
      <<"O", "k", "a", "y", ",", " ", "h", "e", "r", "e", SQ, "s", " ", "a", " ", "d", "r",
        "a", "f", "t", " ", "r", "e", "p", "l", "y", ":">>,
      <<"H", "e", "r", "e", SQ, "s", " ", "a", " ", "p", "r", "o", "f", "e", "s", "s", "i",
        "o", "n", "a", "l", " ", "c", "o", "n", "f", "i", "r", "m", "a", "t", "i", "o",
        "n", ":">> >>

\* the text behind the first prefix of the list it begins with
RECURSIVE RemoveFirstPrefix(_, _)
RemoveFirstPrefix(response, prefixes) ==
    IF prefixes = <<>> THEN response
    ELSE IF startswith(lower(response), lower(Head(prefixes)))
    THEN strip(SubSeq(response, Len(Head(prefixes)) + 1, Len(response)))
    ELSE RemoveFirstPrefix(response, Tail(prefixes))

\* response[1:-1].strip() when the whole response is in quotes
Unquote(response) ==
    IF /\ response # <<>>
       /\ \/ response[1] = DQ /\ response[Len(response)] = DQ
          \/ response[1] = SQ /\ response[Len(response)] = SQ
    THEN strip(SubSeq(response, 2, Len(response) - 1))
    ELSE response

\* generate_meeting_invite: the model's text without a heading and without
\* quotes around it; the model's exception is not caught
generate_meeting_invite(llm) ==
    IF llm.raised THEN [raised |-> TRUE, text |-> <<>>]
    ELSE [raised |-> FALSE,
          text |-> Unquote(RemoveFirstPrefix(strip(llm.text), prefixes_to_remove))]

\* "https://meet.google.com/new"
FallbackLink == <<"https://meet.google.com/new">>

\* the link of an event created in the calendar
EventLink == <<"https://meet.google.com/abc-defg-hij">>

NoEvent == [start |-> Instant(0, <<>>), end |-> Instant(0, <<>>)]

\* the text of handle_meeting_request's except branch
CheckCalendarText == <<"Sure! Let me check my calendar">>

NotAMeeting ==
    [is_meeting |-> FALSE, detected |-> FALSE, response |-> NoneVal, link |-> <<>>,
     created |-> FALSE, event |-> NoEvent, confirmation |-> NoneVal]

\* meeting_date: the date of the object, or today or tomorrow by the message
meeting_date_of(info, message, today) ==
    IF info.date # 0 THEN info.date
    ELSE IF IsSub(<<"t", "o", "d", "a", "y">>, lower(message)) THEN today
    ELSE IF IsSub(<<"t", "o", "m", "o", "r", "r", "o", "w">>, lower(message)) THEN today + 1
    ELSE today

\* meeting_time: the time of the object, or of the message, or 17:00
meeting_time_of(info, message) ==
    IF Truthy(info.time) THEN info.time
    ELSE Only({ IF t # <<>> THEN t ELSE DefaultTime : t \in {time_from_message(message)} })

\* the calendar event and the link: create_meeting with saved tokens,
\* create_business_meeting without, the fallback link when either raises
calendar_of(m, meeting_date, meeting_time) ==
    LET created == m.tokens /\ m.googleOutcome = "ok"
    IN  [created |-> created,
         link |-> IF created THEN EventLink ELSE FallbackLink,
         event |-> IF created THEN inbound_meeting_event(meeting_date, meeting_time)
                   ELSE IF ~m.tokens /\ ParsesAsTime(meeting_time) /\ m.googleOutcome = "ok"
                   THEN create_business_meeting(meeting_date, meeting_time, DefaultDuration)
                   ELSE NoEvent]

\* the result of a detected meeting: the confirmation, with the date, the
\* time and the link behind it when the link is not the fallback link
meeting_result_of(m, meeting_date, meeting_time, calendar, invite) ==
    IF invite.raised
    THEN [NotAMeeting EXCEPT !.detected = TRUE, !.response = CheckCalendarText,
                             !.link = calendar.link, !.created = calendar.created,
                             !.event = calendar.event]
    ELSE [is_meeting |-> TRUE, detected |-> TRUE,
          response |-> IF calendar.link # FallbackLink
                       THEN invite.text \o <<"\n", "\n">>
                               \o format_date_for_message(meeting_date, m.today)
                               \o <<" ", "a", "t", " ">>
                               \o format_time_for_message(meeting_time)
                               \o <<"\n">> \o calendar.link
                       ELSE invite.text,
          link |-> calendar.link, created |-> calendar.created, event |-> calendar.event,
          confirmation |-> invite.text]

\* handle_meeting_request: the meeting of the message, its calendar event or
\* the fallback link, and the confirmation text; an exception on the way
\* gives is_meeting False
handle_meeting_request(message, m) ==
    Only({ IF meeting_info.kind # "dict"
           THEN [NotAMeeting EXCEPT !.response = CheckCalendarText]
           ELSE IF ~JsonTruthy(meeting_info.info.has_meeting) THEN NotAMeeting
           ELSE Only({ meeting_result_of(m, d, t, calendar_of(m, d, t),
                                         generate_meeting_invite(m.llmInvite))
                       : d \in {meeting_date_of(meeting_info.info, message, m.today)},
                         t \in {meeting_time_of(meeting_info.info, message)} })
           : meeting_info \in {extract_meeting_info(message, m.llmExtract)} })

reply_prefixes_to_remove ==
    << <<"H", "e", "r", "e", SQ, "s", " ", "a", " ", "d", "r", "a", "f", "t", " ", "r", "e",
        "p", "l", "y", ":">>,
      <<"H", "e", "r", "e", SQ, "s", " ", "a", " ", "r", "e", "p", "l", "y", ":">>,
      <<"D", "r", "a", "f", "t", " ", "r", "e", "p", "l", "y", ":">>,
      <<"R", "e", "p", "l", "y", ":">>,
      <<"R", "e", "s", "p", "o", "n", "s", "e", ":">>,
      <<"M", "e", "s", "s", "a", "g", "e", ":">>,
      <<"O", "k", "a", "y", ",", " ", "h", "e", "r", "e", SQ, "s", " ", "a", " ", "d", "r",
        "a", "f", "t", " ", "r", "e", "p", "l", "y", ":">> >>

\* s.strip(ch)
RECURSIVE StripChar(_, _)
StripChar(s, ch) ==
    IF s # <<>> /\ s[1] = ch THEN StripChar(Tail(s), ch)
    ELSE IF s # <<>> /\ s[Len(s)] = ch THEN StripChar(SubSeq(s, 1, Len(s) - 1), ch)
    ELSE s

\* generate_auto_reply: the model's text without a heading, without
\* asterisks and without quotes around it; the model's exception is not
\* caught.  The other substitutions of the function act on lists, options,
\* headings with a colon and parentheses, which the replies drawn here do
\* not have.
generate_auto_reply(llm) ==
    IF llm.raised THEN [raised |-> TRUE, text |-> <<>>]
    ELSE [raised |-> FALSE,
          text |-> strip(StripChar(StripChar(
                       Unquote(RemoveAll(RemoveFirstPrefix(strip(llm.text),
                                                           reply_prefixes_to_remove),
                                         <<"*">>)),
                       DQ), SQ))]

\* receiver="business" of the webhook handler
BusinessReceiver == <<"b", "u", "s", "i", "n", "e", "s", "s">>

\* a send attempt of an inbound handler
InboundSend(to, text, outcome) == <<[to |-> to, text |-> text, ok |-> outcome = "ok"]>>

\* receive_webhook behind parse_webhook_payload: the inbound message is
\* stored, a meeting request is handled, and with WhatsApp credentials in
\* the settings the confirmation is sent and then stored.  An exception of
\* the first add_message ends the handler with {"status": "error"}, one of
\* the send or of the second add_message is caught and logged.
receive_webhook(m, st, clock) ==
    Only({ IF inbound.raised
           THEN [status |-> "error", store |-> st, sent |-> <<>>, meeting |-> NotAMeeting]
           ELSE Only({
               [status |-> "ok",
                store |-> IF meeting_result.is_meeting /\ m.creds /\ m.sendOutcome = "ok"
                          THEN add_message(inbound.store, m.from, meeting_result.response,
                                           BusinessId, m.from, m.timestamp, clock,
                                           m.addReplyOutcome).store
                          ELSE inbound.store,
                sent |-> IF meeting_result.is_meeting /\ m.creds
                         THEN InboundSend(m.from, meeting_result.response, m.sendOutcome)
                         ELSE <<>>,
                meeting |-> meeting_result]
               : meeting_result \in {handle_meeting_request(m.text, m)} })
           : inbound \in {add_message(st, m.from, m.text, m.from, BusinessReceiver,
                                      m.timestamp, clock, m.addOutcome)} })

\* contact_auto_reply_settings of the request: absent, or a dict
NoSettings == [given |-> FALSE, entries |-> <<>>]

Settings(entries) == [given |-> TRUE, entries |-> entries]

\* contact_auto_reply_settings and contact_auto_reply_settings.get(n) is False
DisabledFor(settings, n) ==
    /\ settings.given
    /\ settings.entries # <<>>
    /\ \E i \in 1..Len(settings.entries) :
           settings.entries[i].key = n /\ settings.entries[i].value = "false"

AutoReplyResult(success, auto_reply_sent, reason) ==
    [success |-> success, auto_reply_sent |-> auto_reply_sent, reason |-> reason]

\* the end of process_incoming_message: the reply is sent and then stored
send_auto_reply(m, st, clock, meeting_result, ai_reply) ==
    LET failed == AutoReplyResult(FALSE, FALSE, "error")
        reply == add_message(st, m.from, ai_reply.text, BusinessId, m.from,
                             NoneInt, clock, m.addReplyOutcome)
    IN  IF ai_reply.raised
        THEN [ret |-> failed, store |-> st, sent |-> <<>>, meeting |-> meeting_result]
        ELSE IF m.sendOutcome # "ok" \/ reply.raised
        THEN [ret |-> failed, store |-> st,
              sent |-> InboundSend(m.from, ai_reply.text, m.sendOutcome),
              meeting |-> meeting_result]
        ELSE [ret |-> AutoReplyResult(TRUE, TRUE, "sent"), store |-> reply.store,
              sent |-> InboundSend(m.from, ai_reply.text, m.sendOutcome),
              meeting |-> meeting_result]

\* AutoReplyMCP.process_incoming_message: the inbound message is stored;
\* unless auto-reply is disabled, the reply is the confirmation of a meeting
\* request or the text generate_auto_reply returns, it is sent and then
\* stored.  Any exception gives {"success": False}.
\* _process_incoming_meeting_info, called behind the first add_message,
\* touches the calendar only and catches its exceptions.
process_incoming_message(m, d, st, clock) ==
    Only({ IF inbound.raised
           THEN [ret |-> AutoReplyResult(FALSE, FALSE, "error"), store |-> st,
                 sent |-> <<>>, meeting |-> NotAMeeting]
           ELSE IF ~m.auto_reply_enabled
           THEN [ret |-> AutoReplyResult(TRUE, FALSE, "Auto-reply disabled globally"),
                 store |-> inbound.store, sent |-> <<>>, meeting |-> NotAMeeting]
           ELSE IF DisabledFor(m.contact_auto_reply_settings, m.from)
           THEN [ret |-> AutoReplyResult(TRUE, FALSE, "Auto-reply disabled for contact"),
                 store |-> inbound.store, sent |-> <<>>, meeting |-> NotAMeeting]
           ELSE Only({ send_auto_reply(m, inbound.store, clock, meeting_result,
                                       IF meeting_result.is_meeting
                                       THEN [raised |-> FALSE,
                                             text |-> meeting_result.response]
                                       ELSE generate_auto_reply(m.llmReply))
                       : meeting_result \in {handle_meeting_request(m.text, m)} })
           : inbound \in {add_message(st, m.from, m.text, m.from, BusinessId,
                                      NoneInt, clock, m.addOutcome)} })

(***************************************************************************)
(* Inbound messages as requests: the text, what the model answers to the   *)
(* extraction, invite and reply prompts, whether google tokens are saved   *)
(* and WhatsApp credentials are set, and how the services behave.          *)
(***************************************************************************)
MeetAt3pm == <<"C", "a", "n", " ", "w", "e", " ", "m", "e", "e", "t", " ", "t", "o", "m", "o", "r",
      "r", "o", "w", " ", "a", "t", " ", "3", "p", "m", "?">>

MeetAt11pm == <<"c", "a", "l", "l", " ", "m", "e", " ", "a", "t", " ", "1", "1", " ", "p", "m">>

MeetLater == <<"l", "e", "t", "s", " ", "s", "c", "h", "e", "d", "u", "l", "e", " ", "a", " ", "m",
      "e", "e", "t", "i", "n", "g">>

InboundHello == <<"h", "e", "l", "l", "o">>

InviteText == <<"S", "e", "e", " ", "y", "o", "u", " ", "t", "h", "e", "n", "!">>

BaseInbound ==
    [from |-> IdJohn, text |-> MeetAt3pm, timestamp |-> NoneInt, today |-> 1,
     llmExtract |-> LLMRaise, llmInvite |-> Said(InviteText),
     llmReply |-> Said(<<"h", "e", "y">>),
     tokens |-> FALSE, creds |-> TRUE, googleOutcome |-> "ok",
     sendOutcome |-> "ok", addOutcome |-> "ok", addReplyOutcome |-> "ok",
     auto_reply_enabled |-> TRUE, contact_auto_reply_settings |-> NoSettings]

ExtractReplies ==
    { LLMRaise,
      Said(ObjectText("<has_meeting:true>")),
      Said(Fenced(ObjectText("<has_meeting:true,time:'23:00'>"))),
      Said(Wrapped(ObjectText("<has_meeting:true,date:2,time:'09:30'>"))),
      Said(ObjectText("<has_meeting:'false'>")),
      Said(ObjectText("<has_meeting:false>")),
      Said(<<"{", "}">>),
      Said(SorryText),
      Said(ListText) }

InviteReplies ==
    { LLMRaise,
      Said(InviteText),
      Said(<<"M", "e", "e", "t", "i", "n", "g", " ", "i", "n", "v", "i", "t", "e", ":",
              " ", "S", "e", "e", " ", "y", "o", "u", " ", "t", "h", "e", "n", "!">>),
      Said(<<DQ>> \o InviteText \o <<DQ>>) }

AutoReplies ==
    { LLMRaise,
      Said(<<"h", "e", "y">>),
      Said(<<"R", "e", "p", "l", "y", ":", " ", "*", "h", "e", "y", "*">>) }

InboundTexts == {MeetAt3pm, MeetAt11pm, MeetLater, InboundHello}

ContactSettings ==
    { NoSettings,
      Settings(<<>>),
      Settings(<<[key |-> IdJohn, value |-> "false"]>>),
      Settings(<<[key |-> IdJohn, value |-> "true"]>>),
      Settings(<<[key |-> IdJohnny, value |-> "false"]>>) }

\* what the model and the calendar do with a message
MeetingInbounds ==
    { [BaseInbound EXCEPT !.text = t, !.llmExtract = x] :
        t \in InboundTexts, x \in ExtractReplies }
    \cup
    { [BaseInbound EXCEPT !.llmInvite = i, !.tokens = k, !.googleOutcome = go] :
        i \in InviteReplies, k \in BOOLEAN, go \in StoreOutcomes }

\* messages that reach the webhook
WebhookInbounds ==
    MeetingInbounds
    \cup
    { [BaseInbound EXCEPT !.timestamp = ts, !.creds = c, !.sendOutcome = so,
                          !.addOutcome = ao, !.addReplyOutcome = ro] :
        ts \in {NoneInt, 5}, c \in BOOLEAN, so \in SendOutcomes,
        ao \in StoreOutcomes, ro \in StoreOutcomes }

\* messages handed to the auto-reply
AutoReplyInbounds ==
    MeetingInbounds
    \cup
    { [BaseInbound EXCEPT !.text = t, !.llmReply = r, !.auto_reply_enabled = e,
                          !.contact_auto_reply_settings = s] :
        t \in {MeetAt3pm, InboundHello}, r \in AutoReplies, e \in BOOLEAN,
        s \in ContactSettings }
    \cup
    { [BaseInbound EXCEPT !.text = t, !.auto_reply_enabled = e, !.sendOutcome = so,
                          !.addOutcome = ao, !.addReplyOutcome = ro] :
        t \in {MeetAt3pm, InboundHello}, e \in BOOLEAN, so \in SendOutcomes,
        ao \in StoreOutcomes, ro \in StoreOutcomes }

Sends(sent) == [k \in 1..Len(sent) |-> [to |-> sent[k].to, text |-> sent[k].text,
                                        ok |-> sent[k].ok]]

\* POST /webhook with a text message: parse_webhook_payload learns the
\* sender, then the rest of receive_webhook
ReceiveWebhook(m) ==
    /\ chats < MaxChats
    /\ LearnFromInbound({m.from}, {"ok"})
    /\ \E p \in {receive_webhook(m, store, now)} :
           /\ store' = p.store
           /\ sends' = sends \o Sends(p.sent)
           /\ out' = [op |-> "webhook", request |-> m, status |-> p.status,
                      ret |-> AutoReplyResult(p.status = "ok", FALSE, "none"),
                      sent |-> p.sent, meeting |-> p.meeting,
                      appended |-> SubSeq(p.store, Len(store) + 1, Len(p.store))]
    /\ chats' = chats + 1
    /\ UNCHANGED <<now, history, agents, active>>

\* POST /api/auto-reply: process_incoming_message
TriggerAutoReply(m) ==
    /\ chats < MaxChats
    /\ \E p \in {process_incoming_message(m, contacts, store, now)} :
           /\ store' = p.store
           /\ sends' = sends \o Sends(p.sent)
           /\ out' = [op |-> "auto_reply", request |-> m, status |-> "ok",
                      ret |-> p.ret, sent |-> p.sent, meeting |-> p.meeting,
                      appended |-> SubSeq(p.store, Len(store) + 1, Len(p.store))]
    /\ chats' = chats + 1
    /\ UNCHANGED <<now, history, agents, active>>

(***************************************************************************)
(* SpecInbound: inbound messages, one request at a time.                   *)
(***************************************************************************)
InitInbound == ChatInit /\ RaceIdle /\ ParseIdle /\ ResolveIdle

NextInbound ==
    \/ \E m \in WebhookInbounds :
           ReceiveWebhook(m) /\ UNCHANGED <<raceVars, parseVars, resolveVars>>
    \/ \E m \in AutoReplyInbounds :
           TriggerAutoReply(m) /\ UNCHANGED <<dirVars, raceVars, parseVars, resolveVars>>

SpecInbound == InitInbound /\ [][NextInbound]_vars

(***************************************************************************)
(* Properties of the contact directory.                                    *)
(***************************************************************************)
\* normalized key of the last operation's phone argument, before and after a step
LastKey == normalize_phone(last.phone)

NextKey == normalize_phone(last'.phone)

\* every user-defined entry of the directory is the same entry after the step
UserDefinedKept ==
    \A i \in 1..Len(contacts) :
        contacts[i].user_defined =>
            /\ HasKey(contacts', contacts[i].key)
            /\ Entry(contacts', contacts[i].key) = contacts[i]

\* C1: a learn_from_inbound call (and a get_name call) leaves every entry that
\* has user_defined = true as it was, whatever name the webhook observed; such
\* an entry changes only in set_name or remove_name.
C1_UserDefinedNameSurvivesLearn ==
    [][last'.op \in {"learn", "get"} => UserDefinedKept]_vars

\* C1 happens: a webhook carrying the profile name Zed was learned for a number
\* whose entry the user had named Al.
C1_Witness ==
    /\ last.op = "learn"
    /\ last.name = NameZed
    /\ HasKey(contacts, LastKey)
    /\ Entry(contacts, LastKey).user_defined
    /\ Entry(contacts, LastKey).name = NameAl

\* k is the number nk in another writing: the same digits, or one of them is the
\* other with a prefix, or both end with the same last 10 digits
Variant(k, nk) ==
    /\ k # <<>>
    /\ nk # <<>>
    /\ \/ k = nk
       \/ endswith(k, nk)
       \/ endswith(nk, k)
       \/ /\ Len(k) >= SuffixLen
          /\ Len(nk) >= SuffixLen
          /\ LastN(k, SuffixLen) = LastN(nk, SuffixLen)

\* k is what update_contact_from_webhook looks for: the key itself, or a key
\* ending with the last 10 digits of nk (with all of nk when it is shorter)
Recognised(k, nk) == k = nk \/ endswith(k, LastN(nk, SuffixLen))

\* every entry the step added carries a name of the set names
AddedNamesIn(names) ==
    \A j \in 1..Len(contacts') :
        (\A i \in 1..Len(contacts) : contacts[i] # contacts'[j]) =>
            contacts'[j].name \in names

\* C2 as stated: once an entry exists under any variant of the inbound number,
\* learn_from_inbound returns an existing name of that number and stores no
\* other name.
C2_AnyVariantBlocksProfileName ==
    [][(/\ last'.op = "learn"
        /\ \E i \in 1..Len(contacts) : Variant(contacts[i].key, NextKey))
       => LET names == {contacts[i].name : i \in
                           {j \in 1..Len(contacts) : Variant(contacts[j].key, NextKey)}}
          IN  last'.ret \in names /\ AddedNamesIn(names)]_vars

\* C2 amended: once an entry exists under the inbound key or under a key that
\* ends with the inbound key's last 10 digits, learn_from_inbound returns the
\* name of such an entry and stores no other name.
C2_RecognisedEntryBlocksProfileName ==
    [][(/\ last'.op = "learn"
        /\ \E i \in 1..Len(contacts) : Recognised(contacts[i].key, NextKey))
       => LET names == {contacts[i].name : i \in
                           {j \in 1..Len(contacts) : Recognised(contacts[j].key, NextKey)}}
          IN  last'.ret \in names /\ AddedNamesIn(names)]_vars

\* C2 happens: a webhook carrying Zed arrived under a key not stored itself,
\* and the name Al of the stored writing of the number was returned.
C2_Witness ==
    /\ last.op = "learn"
    /\ last.rule = 2
    /\ last.name = NameZed
    /\ last.ret = NameAl

\* C3: the entry a learn created for a wholly new number carries the observed
\* name and user_defined = false; after set_name on that number it carries the
\* name set and user_defined = true, and it still does after any later learn
\* on that number.
C3_LearnSetLearn ==
    /\ track.stage = "learned" =>
          /\ HasKey(contacts, track.nk)
          /\ Entry(contacts, track.nk) =
                [key |-> track.nk, name |-> track.name, user_defined |-> FALSE]
    /\ track.stage \in {"renamed", "relearned"} =>
          /\ HasKey(contacts, track.nk)
          /\ Entry(contacts, track.nk) =
                [key |-> track.nk, name |-> track.name, user_defined |-> TRUE]

\* C3 happens: learn created the entry as Zed, set_name renamed it Al, and a
\* webhook carrying Zed was learned for the number afterwards.
C3_Witness ==
    /\ track.stage = "relearned"
    /\ track.name = NameAl
    /\ last.op = "learn"
    /\ last.name = NameZed

\* C4: when the inbound key is not stored and some stored key ends with its
\* last 10 digits, learn_from_inbound appends one entry under the inbound key
\* with the name and the user_defined flag of such an entry, returns that name,
\* and leaves every entry that was there as it was.
C4_AliasCopiesAndKeeps ==
    [][(/\ last'.op = "learn"
        /\ ~HasKey(contacts, NextKey)
        /\ \E i \in 1..Len(contacts) : endswith(contacts[i].key, LastN(NextKey, SuffixLen)))
       => \E i \in 1..Len(contacts) :
             /\ endswith(contacts[i].key, LastN(NextKey, SuffixLen))
             /\ contacts' = Append(contacts, [key |-> NextKey,
                                              name |-> contacts[i].name,
                                              user_defined |-> contacts[i].user_defined])
             /\ last'.ret = contacts[i].name]_vars

\* C4 happens: an alias of an entry learned from a webhook (user_defined =
\* false) was created.
C4_Witness ==
    /\ last.op = "learn"
    /\ last.rule = 2
    /\ HasKey(contacts, LastKey)
    /\ ~Entry(contacts, LastKey).user_defined
    /\ Len(contacts) >= 2

\* C5: after remove_name deleted the entry of a number, get_name of that number
\* returns the raw phone number passed in; remove_name of a number that has no
\* entry changes nothing.
C5_RemoveRevertsToRawNumber ==
    [][last'.op = "remove"
       => IF HasKey(contacts, NextKey)
          THEN get_contact_name(contacts', last'.phone) = last'.phone
          ELSE contacts' = contacts /\ disk' = disk]_vars

\* C6: a set_name, remove_name or learn_from_inbound that changes the directory
\* writes contacts.json; after a write that succeeded the file holds the
\* in-memory directory; a write that failed raises nothing, and the operation
\* returns with the directory changed in memory.
C6_MutationsPersisted ==
    [][last'.op \in {"set", "remove", "learn"}
       => /\ contacts' # contacts => last'.write # "none"
          /\ last'.write = "ok" => disk' = [ok |-> TRUE, entries |-> contacts']
          /\ last'.write \in {"unchanged", "corrupt"} => ~last'.raised]_vars

\* C6 happens: a set_name whose write failed returned, the file holding an
\* older directory than memory.
C6_Witness ==
    /\ last.op = "set"
    /\ last.write = "unchanged"
    /\ ~last.raised
    /\ disk.ok
    /\ disk.entries # contacts
    /\ contacts # <<>>

(***************************************************************************)
(* Properties of concurrent webhook requests.                              *)
(***************************************************************************)
Processed(t) == req[t].pc \in {"emit", "done"}

ReqKey(t) == normalize_phone(req[t].phone)

\* the name request t was given is not the name stored for its number
Diverged(t) ==
    /\ Processed(t)
    /\ req[t].rule \in {1, 2, 3}
    /\ ~(HasKey(contacts, ReqKey(t)) /\ Entry(contacts, ReqKey(t)).name = req[t].ret)

\* C7 as stated: two overlapping first messages from one new number that carry
\* different profile names both take the 'no match' branch, and one of them was
\* returned a name that is not the name stored in the end.
C7_RaceCreatesDivergentEntries ==
    \A t, u \in Tasks :
        (/\ t # u
         /\ Processed(t) /\ Processed(u)
         /\ ReqKey(t) = ReqKey(u)
         /\ req[t].name # req[u].name
         /\ req[t].rule = 3)
        => req[u].rule = 3 /\ (Diverged(t) \/ Diverged(u))

\* C7 amended: update_contact_from_webhook runs without suspension, so of the
\* requests for one number at most one takes the 'no match' branch, and every
\* processed request was returned the name stored for its number.
C7_LookupAndStoreAreAtomic ==
    /\ \A t \in Tasks : ~Diverged(t)
    /\ \A t, u \in Tasks :
          (t # u /\ ReqKey(t) = ReqKey(u) /\ req[t].rule = 3) => req[u].rule # 3

\* C7 happens: two requests for one new number with different profile names
\* are both suspended in the middle of the handler; the first created the
\* entry, the second found it.
C7_Witness ==
    /\ req[1].pc = "emit" /\ req[2].pc = "emit"
    /\ ReqKey(1) = ReqKey(2)
    /\ req[1].name # req[2].name
    /\ req[1].rule = 3
    /\ req[2].rule = 1
    /\ req[2].ret = req[1].name

(***************************************************************************)
(* The reference grammar of send commands:                                 *)
(*     send|sent  <ws>  "message"  <ws> to <ws>  recipient                 *)
(*     send|sent  <ws>  'message'  <ws> to <ws>  recipient                 *)
(*     send|sent  <ws>   message   <ws> to <ws>  recipient                 *)
(* stated as the set of ways a command splits into these parts.            *)
(***************************************************************************)
\* s[i..k] is a non-empty run of whitespace
IsWs(s, i, k) == i <= k /\ \A x \in i..k : s[x] \in Whitespace

\* s reads "to" at index t, in either case
IsTo(s, t) == t + 1 <= Len(s) /\ lowerChar(s[t]) = "t" /\ lowerChar(s[t + 1]) = "o"

NoNewline(s, i, k) == \A x \in i..k : s[x] # "\n"

\* the indices c at which a recipient s[c..] can start when s reads, from
\* index b: whitespace, "to", whitespace, recipient
RecipientStarts(s, b, multiline) ==
    { c \in (b + 4)..Len(s) :
        /\ \E t \in (b + 1)..(c - 3) :
              IsTo(s, t) /\ IsWs(s, b, t - 1) /\ IsWs(s, t + 2, c - 1)
        /\ multiline \/ NoNewline(s, c, Len(s)) }

\* the trimmed remainder after "to"
RecipientFrom(s, b, multiline) ==
    LET c == CHOOSE c \in RecipientStarts(s, b, multiline) : TRUE
    IN  strip(SubSeq(s, c, Len(s)))

\* <<o, j>>: an opening quote at o and a closing quote at j
QuotedSplits(s, q) ==
    IF ~Keyword(s) THEN {}
    ELSE { x \in (6..Len(s)) \X (7..Len(s)) :
             /\ IsWs(s, 5, x[1] - 1)
             /\ s[x[1]] = q
             /\ x[2] > x[1]
             /\ s[x[2]] = q
             /\ RecipientStarts(s, x[2] + 1, TRUE) # {} }

\* <<a, b>>: a message s[a..b-1] on one line
UnquotedSplits(s) ==
    IF ~Keyword(s) THEN {}
    ELSE { x \in (6..Len(s)) \X (7..Len(s)) :
             /\ IsWs(s, 5, x[1] - 1)
             /\ x[2] > x[1]
             /\ NoNewline(s, x[1], x[2] - 1)
             /\ RecipientStarts(s, x[2], FALSE) # {} }

\* the quoted form returns the text up to the first closing quote that the
\* rest of the form follows
RefQuoted(s, q) ==
    LET S == QuotedSplits(s, q)
        x == CHOOSE x \in S : \A y \in S : x[2] <= y[2]
    IN  [message   |-> SubSeq(s, x[1] + 1, x[2] - 1),
         recipient |-> RecipientFrom(s, x[2] + 1, TRUE)]

\* the unquoted form takes the message after all the whitespace it can, and
\* ends it at the first " to " that the recipient follows
RefUnquoted(s) ==
    LET S == UnquotedSplits(s)
        x == CHOOSE x \in S :
                 \A y \in S : x[1] > y[1] \/ (x[1] = y[1] /\ x[2] <= y[2])
    IN  [message   |-> strip(SubSeq(s, x[1], x[2] - 1)),
         recipient |-> RecipientFrom(s, x[2], FALSE)]

\* the result for a command s without surrounding whitespace
RefParse(s) ==
    IF QuotedSplits(s, DQ) # {} THEN RefQuoted(s, DQ)
    ELSE IF QuotedSplits(s, SQ) # {} THEN RefQuoted(s, SQ)
    ELSE IF UnquotedSplits(s) # {} THEN RefUnquoted(s)
    ELSE NoParse

\* C8: for every command, _parse_send_command returns what the reference
\* grammar gives: the double-quoted, single-quoted and unquoted forms in this
\* order, case-insensitively, the first form that matches deciding; a quoted
\* form gives the text between the quotes and the trimmed remainder after
\* "to"; the unquoted form gives the shortest message that a " to " and a
\* recipient follow; a command of no form gives (None, None).
C8_ParseAgreesWithGrammar ==
    parsed # NotParsed => \A s \in {strip(command)} : parsed = RefParse(s)

\* C8 happens: `send hi to hi to Bo` is split at the first " to ".
C8_Witness ==
    /\ parsed = [message   |-> <<"h", "i">>,
                 recipient |-> <<"h", "i", " ", "t", "o", " ", "B", "o">>]
    /\ UnquotedSplits(strip(command)) # {}
    /\ QuotedSplits(strip(command), DQ) = {}

(***************************************************************************)
(* Properties of the recipient resolvers.                                  *)
(***************************************************************************)
\* the target as the resolvers compare it
NormalTarget == strip(lower(target))

\* both resolvers returned id
BothReturned(id) == resolved.send = id /\ resolved.meeting = id

\* the aliases whose key equals the whole target when letter case is ignored
SameIgnoringCase == {i \in 1..Len(aliases) : lower(aliases[i].key) = lower(target)}

\* the aliases that contain the target or are contained in it
Fuzzy ==
    {i \in 1..Len(aliases) :
        IsSub(NormalTarget, aliases[i].key) \/ IsSub(aliases[i].key, NormalTarget)}

\* C9 as stated: if some alias key equals the full target string ignoring
\* letter case, both resolvers return that key's contact id.
C9_ExactMatchIgnoringCase ==
    (resolved # Unresolved /\ SameIgnoringCase # {})
    => \E i \in SameIgnoringCase : BothReturned(aliases[i].id)

OutRecipient == parse_send_command(out.command).recipient

OutNormalRecipient == strip(lower(OutRecipient))

\* the message and the recipient of the last command were parsed
OutParsed ==
    /\ Truthy(parse_send_command(out.command).message)
    /\ Truthy(OutRecipient)

\* neither the exact nor the substring rule finds an alias for the recipient
OutNoAlias ==
    \A i \in 1..Len(out.aliases) :
        /\ ~IsSub(OutNormalRecipient, out.aliases[i].key)
        /\ ~IsSub(out.aliases[i].key, OutNormalRecipient)

\* a phone-like token: digits, with an optional leading "+"
PhoneLike(s) ==
    /\ s # <<>>
    /\ \E k \in 1..Len(s) : isdigit(s[k])
    /\ \A k \in 1..Len(s) : isdigit(s[k]) \/ (k = 1 /\ s[k] = "+")

\* C11: when neither the exact nor the substring rule resolves the recipient,
\* the literal recipient is the identifier only if it is a phone-like token;
\* otherwise process_command returns a failure that names the recipient, makes
\* no WhatsApp send and appends nothing to the Conversation Store.
C11_UnresolvedRecipientFails ==
    (out.op = "process_command" /\ OutParsed /\ OutNoAlias)
    => IF PhoneLike(OutRecipient)
       THEN \A k \in 1..Len(out.sent) : out.sent[k].to = OutRecipient
       ELSE /\ ~out.ret.success
            /\ out.ret.recipient = OutRecipient
            /\ out.sent = <<>>
            /\ out.appended = <<>>


(***************************************************************************)
(* Properties of the Conversation Store.                                   *)
(***************************************************************************)
HistoryReturned == out.op = "history" /\ ~out.failed

\* the place of messages[i] after a stable ascending sort by timestamp
Rank(messages, i) ==
    Cardinality({j \in 1..Len(messages) :
                    \/ messages[j].timestamp < messages[i].timestamp
                    \/ (messages[j].timestamp = messages[i].timestamp /\ j <= i)})

\* messages sorted ascending by timestamp, equal timestamps in the order they
\* have in messages
StableByTimestamp(messages) ==
    [k \in 1..Len(messages) |->
        messages[CHOOSE i \in 1..Len(messages) : Rank(messages, i) = k]]

\* the last n elements of s (all of s when it has fewer)
MostRecent(s, n) ==
    SubSeq(s, (IF Len(s) > n THEN Len(s) - n ELSE 0) + 1, Len(s))

\* s without its first n elements
WithoutOldest(s, n) == SubSeq(s, n + 1, Len(s))

\* number of times r occurs in s
Count(s, r) == Cardinality({i \in 1..Len(s) : s[i] = r})

Messages(records) == [i \in 1..Len(records) |-> MessageOf(records[i])]

\* C12 as stated: history returns the contact's records ascending by
\* timestamp, equal timestamps in insertion order, truncated to the most
\* recent `limit`; with limit 0 or no limit it returns all of them.
C12_HistoryInsertionTiesUnsetAll ==
    (HistoryReturned /\ (out.limit = Unset \/ out.limit[1] >= 0))
    => \A full \in {StableByTimestamp(Messages(Where(store, out.contact_id)))} :
           out.ret = IF out.limit = Unset \/ out.limit[1] = 0 THEN full
                     ELSE MostRecent(full, out.limit[1])

\* C12 amended: the records read are exactly the contact's stored records;
\* history returns them ascending by timestamp, equal timestamps in the
\* order the collection returned them, truncated to the most recent `limit`
\* for a positive limit and to the most recent 50 when no limit is passed;
\* limit 0 returns all, a negative limit drops the -limit oldest.
C12_HistorySortedAndLimited ==
    HistoryReturned
    => /\ Len(out.got) = Len(Where(store, out.contact_id))
       /\ \A i \in 1..Len(out.got) :
              /\ out.got[i].contact_id = out.contact_id
              /\ Count(out.got, out.got[i]) = Count(store, out.got[i])
       /\ \A full \in {StableByTimestamp(Messages(out.got))} :
              out.ret = IF out.limit = Unset THEN MostRecent(full, DefaultLimit)
                        ELSE IF out.limit[1] > 0 THEN MostRecent(full, out.limit[1])
                        ELSE IF out.limit[1] = 0 THEN full
                        ELSE WithoutOldest(full, -out.limit[1])

\* a history without a limit on a contact with more than 50 records
C12_Witness ==
    /\ HistoryReturned
    /\ out.limit = Unset
    /\ Len(out.got) > DefaultLimit
    /\ Len(out.ret) = DefaultLimit
    /\ \E i \in 1..(Len(out.ret) - 1) : out.ret[i].timestamp = out.ret[i + 1].timestamp


Appended == out.op = "append" /\ ~out.raised

\* the timestamp the record of the last append is to carry: the supplied one,
\* the time of the call when it was omitted
DueTimestamp ==
    IF out.args.timestamp = NoneInt THEN out.clock ELSE out.args.timestamp

\* C13: after append(contact_id, text, sender, receiver, timestamp) the
\* history of the contact contains a record with that text, sender and
\* receiver, with the supplied timestamp (the current time only when the
\* timestamp was omitted) and with the datetime of that timestamp.
C13_AppendHistoryRoundTrip ==
    Appended
    => \A order \in GetOrders :
           \A h \in {get_conversation_history(store, out.args.contact_id, <<0>>, order, "ok")} :
               \E i \in 1..Len(h) :
                   /\ h[i].text = out.args.text
                   /\ h[i].sender = out.args.sender
                   /\ h[i].receiver = out.args.receiver
                   /\ h[i].timestamp = DueTimestamp
                   /\ h[i].datetime = DatetimeOf(h[i].timestamp)


StoreOps == {"append", "history", "search", "list_contacts"}

\* what an operation returns when it degrades to an empty result
EmptyResult ==
    IF out.op = "list_contacts" THEN out.ret = {}
    ELSE IF out.op = "append" THEN ~out.raised
    ELSE out.ret = <<>>

\* C14 as stated: every operation of the Conversation Store (append, history,
\* search, list_contacts) catches an error of the collection and gives an
\* empty result; the error does not reach the caller.
C14_EveryStoreOpDegrades ==
    (out.op \in StoreOps /\ out.failed) => (~out.raised /\ EmptyResult)

\* C14 amended: history, search and list_contacts catch an error of the
\* collection and return an empty result; append raises the error to its
\* caller and leaves the store as it was.
C14_ReadsDegradeAppendRaises ==
    [][/\ (out'.op \in {"history", "search"} /\ out'.failed)
            => (~out'.raised /\ out'.ret = <<>>)
       /\ (out'.op = "list_contacts" /\ out'.failed)
            => (~out'.raised /\ out'.ret = {})
       /\ (out'.op = "append" /\ out'.failed)
            => (out'.raised /\ store' = store)
       /\ (out'.op \in StoreOps /\ ~out'.failed) => ~out'.raised]_vars

\* the collection raises under a history call for a contact that has records
C14_Witness ==
    /\ out.op = "history"
    /\ out.failed
    /\ Where(store, out.contact_id) # <<>>
    /\ out.ret = <<>>

(***************************************************************************)
(* Properties of the agent orchestrator                                    *)
(***************************************************************************)
ActionTypes ==
    {"send_message", "send_message_failed", "schedule_meeting",
     "schedule_meeting_failed", "general_chat", "error"}

FailureTypes == {"send_message_failed", "schedule_meeting_failed", "error"}

\* C15: every call of process_user_input appends the user's input as a user
\* turn and then the agent's message as an agent turn with its action_type,
\* on the success path and on every failure path; after the call the history
\* ends with the two turns, the user turn first.
C15_BothTurnsOnEveryPath ==
    [][chats' = chats + 1 =>
          /\ out'.op = "chat"
          /\ out'.ret.action_type \in ActionTypes
          /\ history' = history \o <<UserTurn(out'.user_input),
                                      AgentTurn(out'.ret.response, out'.ret.action_type)>>]_vars

\* a request whose intent reply is a JSON list fails in the router; the
\* history holds the user turn and the error turn
C15_Witness ==
    /\ out.op = "chat"
    /\ out.ret.action_type = "error"
    /\ ~out.ret.success
    /\ Len(history) = 2
    /\ history[1] = UserTurn(out.user_input)
    /\ history[2] = AgentTurn(out.ret.response, "error")

\* C16: whatever the model, the WhatsApp send, the calendar and the store
\* do, process_user_input returns a result with a success flag, and so does
\* process_command when it is called; no exception escapes, and a failure
\* is reported as success = FALSE.
C16_StructuredResultNoEscape ==
    out.op = "chat" =>
        /\ ~out.escaped
        /\ out.ret.success \in BOOLEAN
        /\ out.ret.action_type \in ActionTypes
        /\ out.ret.success <=> out.ret.action_type \notin FailureTypes
        /\ out.mcp.called => out.mcp.ret.success \in BOOLEAN

\* the router raises on an intent that is not an object, and the request
\* still returns the error result
C16_Witness ==
    /\ out.op = "chat"
    /\ out.ret = Result(FALSE, Resp("Sorry, I encountered an error"), "error")
    /\ ~out.escaped
    /\ out.sent = <<>>

\* the primary send raises inside process_command, which returns a failure
C16_WitnessCommand ==
    /\ out.op = "chat"
    /\ out.mcp.called
    /\ ~out.mcp.ret.success
    /\ ~out.ret.success

InFlight == {t \in AgentTasks : agents[t].pc = "started"}

\* C17 as stated: agent requests overlap between their two appends: while
\* one request has appended its user turn and not yet its agent turn, another
\* request can start and append its user turn behind it (which is how the
\* history comes to hold userA, userB, agentB, agentA).
C17_RequestsOverlapBetweenAppends ==
    \A t, u \in AgentTasks :
        (agents[t].pc = "started" /\ agents[u].pc = "none")
            => ENABLED (\E r \in OverlapRequests : AgentStart(u, r))

\* the history is user turn, agent turn, user turn, agent turn, ...; a user
\* turn without its agent turn is the last turn and belongs to the one
\* request in flight
PairsAdjacent ==
    /\ Cardinality(InFlight) <= 1
    /\ \A i \in 1..Len(history) :
           history[i].role = IF i % 2 = 1 THEN "user" ELSE "agent"
    /\ \A t \in InFlight :
           /\ Len(history) % 2 = 1
           /\ history[Len(history)] = UserTurn(agents[t].req.user_input)
    /\ InFlight = {} => Len(history) % 2 = 0

\* every start and every completion appends its turn to the history as it is
NoAppendLost ==
    \A t \in AgentTasks :
        /\ (agents[t].pc = "none" /\ agents'[t].pc = "started")
              => history' = Append(history, UserTurn(agents'[t].req.user_input))
        /\ (agents[t].pc = "started" /\ agents'[t].pc = "done")
              => history' = Append(history, AgentTurn(agents'[t].ret.response,
                                                      agents'[t].ret.action_type))

\* C17 amended: the history is one unguarded sequence, but nothing suspends
\* between the two appends of process_user_input, so the turns of overlapping
\* requests do not interleave: each request's user turn is directly followed
\* by its own agent turn (userA, agentA, userB, agentB), and no append is
\* lost.
C17_TurnsOfARequestAreAdjacent ==
    [][PairsAdjacent' /\ NoAppendLost]_vars

\* two requests with different inputs were in flight together and are done
C17_Witness ==
    /\ \A t \in AgentTasks : agents[t].pc = "done"
    /\ Len(history) = 4
    /\ history[1].message # history[3].message
    /\ history[2].action_type # history[4].action_type
    /\ \E t, u \in AgentTasks :
           /\ t # u
           /\ history[1] = UserTurn(agents[t].req.user_input)
           /\ history[2] = AgentTurn(agents[t].ret.response, agents[t].ret.action_type)
           /\ history[3] = UserTurn(agents[u].req.user_input)
           /\ history[4] = AgentTurn(agents[u].ret.response, agents[u].ret.action_type)

\* the send attempt has a record in the Conversation Store: a record with
\* its text, filed under its recipient
Recorded(attempt, records) ==
    \E j \in 1..Len(records) :
        /\ records[j].text = attempt.text
        /\ records[j].contact_id = attempt.to
        /\ records[j].receiver = attempt.to

\* C18: whenever the orchestrator sends or attempts to send a WhatsApp
\* message (primary send, direct-send fallback, meeting invite), a record
\* with that text is appended to the Conversation Store for that recipient.
C18_EverySendIsRecorded ==
    out.op = "chat" =>
        \A k \in 1..Len(out.sent) : Recorded(out.sent[k], out.appended)

\* the send attempts of the request that went through the channel
SentVia(channel) == {k \in 1..Len(out.sent) : out.sent[k].via = channel}

PrimaryFailed == out.mcp.called /\ ~out.mcp.ret.success

\* C19 as stated: the direct-send fallback is attempted exactly when
\* process_command reports failure, and at most once; one request makes at
\* most two send attempts.
C19_FallbackExactlyOnPrimaryFailure ==
    out.op = "chat" =>
        /\ Cardinality(SentVia("fallback")) = (IF PrimaryFailed THEN 1 ELSE 0)
        /\ Len(out.sent) <= 2

\* C19 amended: the direct-send fallback is attempted exactly when
\* process_command reports failure and a recipient phone was resolved from
\* the model's output; without one nothing further is sent.  Each of the
\* primary send, the fallback and the meeting invite is attempted at most
\* once, the fallback comes after the primary attempt, and one request makes
\* at most two send attempts.
C19_FallbackOnFailureWithPhone ==
    out.op = "chat" =>
        /\ Cardinality(SentVia("fallback"))
              = (IF PrimaryFailed /\ Truthy(out.phone) THEN 1 ELSE 0)
        /\ Cardinality(SentVia("primary")) <= (IF out.mcp.called THEN 1 ELSE 0)
        /\ Cardinality(SentVia("invite")) <= (IF out.mcp.called THEN 0 ELSE 1)
        /\ \A k \in SentVia("fallback") :
               /\ k = Len(out.sent)
               /\ out.sent[k].to = out.phone
        /\ Len(out.sent) <= 2

\* the primary send was attempted and failed, and the fallback was sent to
\* the resolved phone
C19_Witness ==
    /\ out.op = "chat"
    /\ PrimaryFailed
    /\ Len(out.sent) = 2
    /\ out.sent[1].via = "primary"
    /\ ~out.sent[1].ok
    /\ out.sent[2].via = "fallback"
    /\ out.sent[2].to = out.phone

\* process_command failed and no phone was resolved: no fallback
C19_WitnessNoPhone ==
    /\ out.op = "chat"
    /\ PrimaryFailed
    /\ ~Truthy(out.phone)
    /\ SentVia("fallback") = {}

\* the request went down the send-message path and the model answered the
\* extraction prompt
OnSendPath ==
    /\ out.op = "chat"
    /\ out.ret.action_type \in {"send_message", "send_message_failed"}
    /\ ~out.reply.raised

\* what _handle_send_message parsed from the model's answer
ParsedReply == ParseReply(CleanSendReply(out.reply.text))

\* output that cannot be parsed ends the request with a failure and no send:
\* 'temporarily unavailable' with a quota signature, else 'could not understand'
UnparsableFails ==
    (OnSendPath /\ ~ParsedReply.ok) =>
        /\ ~out.ret.success
        /\ out.sent = <<>>
        /\ out.ret.response =
              IF HasQuotaSignature(out.reply.text)
              THEN Resp("the AI reply service is temporarily unavailable")
              ELSE Resp("I couldn't understand who to send the message to")

\* no send unless the parsed output carries is_valid_request = true
SendsOnlyIfValid ==
    (OnSendPath /\ out.sent # <<>>) =>
        /\ ParsedReply.ok
        /\ ParsedReply.kind = "dict"
        /\ InfoOf(ParsedReply).is_valid_request = "true"

\* C20: in the send-message path, model output that cannot be parsed even
\* after the scan for an embedded JSON object ends the request with a failure
\* and no WhatsApp send ('temporarily unavailable' with a quota signature in
\* the text, otherwise 'could not understand'), and no send happens unless
\* the parsed output carries is_valid_request = true.
C20_UnparsableFailsAndSendNeedsValid ==
    UnparsableFails /\ SendsOnlyIfValid

(***************************************************************************)
(* Properties of the directory's keys and of a restart                     *)
(***************************************************************************)
IsDigits(k) == \A i \in 1..Len(k) : isdigit(k[i])

\* C23: every key of the in-memory contact directory is a non-empty string
\* of digits, after any sequence of set_name, remove_name and
\* learn_from_inbound calls with arbitrary phones (empty, missing and
\* digit-free ones included) and arbitrary observed names.
C23_KeysAreNonEmptyDigits ==
    \A k \in Keys(contacts) : k # <<>> /\ IsDigits(k)

\* the keys and names of a directory
KeysAndNames(d) == {<<d[i].key, d[i].name>> : i \in 1..Len(d)}

\* C28: loading the persisted contacts file yields a directory with exactly
\* the keys and names of the in-memory directory that was saved, and every
\* loaded entry has user_defined = true whatever flag was stored.
C28_RestartRoundTrip ==
    [][(last'.op = "restart" /\ disk = [ok |-> TRUE, entries |-> contacts])
          => /\ KeysAndNames(contacts') = KeysAndNames(contacts)
             /\ \A i \in 1..Len(contacts') : contacts'[i].user_defined]_vars

\* the round trip for a directory whose keys are non-empty
RestartKeepsKeyedEntries ==
    [][(last'.op = "restart" /\ disk = [ok |-> TRUE, entries |-> contacts])
          => /\ KeysAndNames(contacts')
                   = {kn \in KeysAndNames(contacts) : kn[1] # <<>>}
             /\ \A i \in 1..Len(contacts') : contacts'[i].user_defined]_vars

(***************************************************************************)
(* Properties of the calendar events                                       *)
(***************************************************************************)
\* a time of day HH:MM with 0 <= HH <= 23 and 0 <= MM <= 59
ValidTime(t) ==
    /\ Len(t) = 5
    /\ t[3] = ":"
    /\ \A i \in {1, 2, 4, 5} : isdigit(t[i])
    /\ SplitTime(t)[1] < HoursPerDay
    /\ SplitTime(t)[2] < MinutesPerHour

\* minutes since day 0 of an instant
MinuteOf(i) ==
    i.date * HoursPerDay * MinutesPerHour
        + SplitTime(i.time)[1] * MinutesPerHour + SplitTime(i.time)[2]

\* C29: for every extracted start time HH:MM with 0 <= HH <= 23, the event
\* built for a meeting has a valid end time that is exactly 60 minutes after
\* its start, also for a start in the 23:00 hour.
C29_EndIsStartPlusSixty ==
    out.op = "event" =>
        /\ out.event.start.time = out.time
        /\ ValidTime(out.event.end.time)
        /\ MinuteOf(out.event.end) = MinuteOf(out.event.start) + DefaultDuration

\* the same for starts before 23:00
EndIsStartPlusSixtyBefore23 ==
    (out.op = "event" /\ SplitTime(out.time)[1] < HoursPerDay - 1) =>
        /\ ValidTime(out.event.end.time)
        /\ MinuteOf(out.event.end) = MinuteOf(out.event.start) + DefaultDuration

\* create_business_meeting is right in the 23:00 hour too
BusinessMeetingEndIsRight ==
    (out.op = "event" /\ out.by = "business") =>
        /\ ValidTime(out.event.end.time)
        /\ MinuteOf(out.event.end) = MinuteOf(out.event.start) + DefaultDuration

(***************************************************************************)
(* Properties of the agent's send-message path                             *)
(***************************************************************************)
\* the send attempts of the request that reached WhatsApp
Delivered == {k \in 1..Len(out.sent) : out.sent[k].ok}

\* C24: in one agent send-message request the recipient is delivered the
\* message at most once: the direct-send fallback never runs after the
\* primary command path has delivered the message through WhatsApp.
C24_DeliveredAtMostOnce ==
    out.op = "chat" =>
        /\ (\E k \in SentVia("primary") : out.sent[k].ok) => SentVia("fallback") = {}
        /\ Cardinality(Delivered) <= 1

\* process_command was called by the send-message handler
CommandPathTaken == out.op = "chat" /\ out.mcp.called

\* C25: the send-message result has success = true exactly when
\* process_command succeeded; a message delivered only by the direct-send
\* fallback is reported with success = false and action_type
\* send_message_failed, and the outcome of the fallback is nowhere but under
\* details.whatsapp_fallback.
C25_SuccessIsCommandSuccess ==
    CommandPathTaken =>
        /\ out.ret.success <=> out.mcp.ret.success
        /\ out.ret.action_type =
              (IF out.mcp.ret.success THEN "send_message" ELSE "send_message_failed")
        /\ out.ret.response =
              (IF out.mcp.ret.success THEN Resp("Message sent")
               ELSE Resp("Failed to send message"))
        /\ out.mcp.ret.success
              => (out.details.shape = "sent" /\ ~out.details.whatsapp_fallback.present)
        /\ ~out.mcp.ret.success
              => /\ out.details.shape = "mcp_result"
                 /\ out.details.whatsapp_fallback.present
                 /\ (out.details.whatsapp_fallback.raw = "missing_credentials_or_recipient")
                        <=> SentVia("fallback") = {}

\* the primary send failed, the fallback delivered the message, and the
\* result is a failure that carries the fallback under its details
C25_Witness ==
    /\ CommandPathTaken
    /\ \A k \in SentVia("primary") : ~out.sent[k].ok
    /\ \E k \in SentVia("fallback") : out.sent[k].ok
    /\ ~out.ret.success
    /\ out.ret.action_type = "send_message_failed"
    /\ out.details.whatsapp_fallback.raw = "sent"

\* C26: in a successful send-message result details.recipient_phone is the
\* contact id the command path sent the message to, for every model output
\* and every directory.
C26_RecipientPhoneIsWhereItWent ==
    (CommandPathTaken /\ out.ret.success) =>
        /\ out.details.shape = "sent"
        /\ \A k \in SentVia("primary") : out.sent[k].to = out.details.recipient_phone
        /\ out.mcp.ret.contact_id = out.details.recipient_phone

\* C27: the command the orchestrator builds, send "<message>" to <target>,
\* round-trips through the parser: for every rewritten message and every
\* non-empty target, parsing it returns that message and the trimmed target.
C27_BuiltCommandRoundTrips ==
    (CommandPathTaken /\ Truthy(out.mcp.target)) =>
        parse_send_command(out.mcp.command)
            = [message |-> out.mcp.message, recipient |-> strip(out.mcp.target)]

\* the round trip for a rewritten message without a double quote
QuoteFreeCommandRoundTrips ==
    (CommandPathTaken /\ Truthy(out.mcp.target) /\ Truthy(out.mcp.message)
        /\ \A i \in 1..Len(out.mcp.message) : out.mcp.message[i] # DQ) =>
        parse_send_command(out.mcp.command)
            = [message |-> out.mcp.message, recipient |-> strip(out.mcp.target)]

(***************************************************************************)
(* Properties of the intent routing                                        *)
(***************************************************************************)
\* the handler that produced the result, by its action types
Dispatched ==
    CASE out.ret.action_type \in {"send_message", "send_message_failed"} -> "send_message"
      [] out.ret.action_type \in {"schedule_meeting", "schedule_meeting_failed"}
            -> "schedule_meeting"
      [] out.ret.action_type = "general_chat" -> "general_chat"
      [] OTHER -> "none"

\* one of the send patterns matches
MatchesSend(s) ==
    \/ SendToWord(s)
    \/ FollowedByWord(s, <<"m", "e", "s", "s", "a", "g", "e">>)
    \/ FollowedByWord(s, <<"t", "e", "l", "l">>)

\* one of the meeting patterns matches
MatchesMeeting(s) ==
    \/ Follows(s, <<"m", "e", "e", "t", "i", "n", "g">>, <<"w", "i", "t", "h">>)
    \/ Follows(s, <<"s", "c", "h", "e", "d", "u", "l", "e">>, <<"m", "e", "e", "t", "i", "n", "g">>)
    \/ Follows(s, <<"m", "e", "e", "t">>, <<"w", "i", "t", "h">>)
    \/ IsSub(<<"a", "p", "p", "o", "i", "n", "t", "m", "e", "n", "t">>, s)

\* the ordered heuristics: send before meeting, general_chat otherwise
HeuristicIntent(user_input) ==
    IF MatchesSend(lower(user_input)) THEN "send_message"
    ELSE IF MatchesMeeting(lower(user_input)) THEN "schedule_meeting"
    ELSE "general_chat"

\* the classification the model returned, as parsed
Classification == json_loads(Unfence(strip(out.classified.text)))

\* the classification is an object
WellFormed == ~out.classified.raised /\ Classification.ok /\ Classification.kind = "dict"

\* the handler the request is to go to: the label of a well-formed
\* classification, the heuristics otherwise; a label that is neither
\* send_message nor schedule_meeting goes to general_chat
IntendedHandler ==
    LET label == IF WellFormed THEN InfoOf(Classification).intent
                 ELSE HeuristicIntent(out.user_input)
    IN  IF label \in {"send_message", "schedule_meeting"} THEN label ELSE "general_chat"

\* C22: intent routing is total: every request is dispatched to exactly one
\* of the three handlers, the one of the model's label when the
\* classification is well-formed and the one of the ordered heuristics (send
\* before meeting, general_chat when none matches) when it is malformed or
\* unavailable; any other label goes to general_chat.
C22_RoutingIsTotal ==
    out.op = "chat" => Dispatched = IntendedHandler

\* the same for every classification that is not JSON of another kind than
\* an object
RoutingOfObjectsAndNonJson ==
    (out.op = "chat" /\ (out.classified.raised \/ ~Classification.ok \/ WellFormed))
        => Dispatched = IntendedHandler

\* the heuristics decide for a message that both pattern families match
HeuristicsSendFirst ==
    /\ out.op = "chat"
    /\ ~WellFormed
    /\ MatchesSend(lower(out.user_input)) /\ MatchesMeeting(lower(out.user_input))
    /\ Dispatched = "send_message"

(***************************************************************************)
(* Properties of the inbound handlers                                      *)
(***************************************************************************)
\* the records the request appended that hold text for the sender, written
\* by the business
StoredReplies(text) ==
    {k \in 1..Len(out.appended) :
        /\ out.appended[k].contact_id = out.request.from
        /\ out.appended[k].receiver = out.request.from
        /\ out.appended[k].sender = BusinessId
        /\ out.appended[k].text = text}

\* C21: for every inbound webhook message in which a meeting request is
\* detected, the handler has, when the request completes, created a calendar
\* event or produced the fallback link, generated a confirmation text, and
\* appended that confirmation to the Conversation Store for the sender.
C21_MeetingConfirmationIsStored ==
    (out.op = "webhook" /\ out.meeting.detected) =>
        /\ out.meeting.created \/ out.meeting.link = FallbackLink
        /\ out.meeting.is_meeting
        /\ Truthy(out.meeting.confirmation)
        /\ StoredReplies(out.meeting.response) # {}

\* the confirmation is stored when the settings hold WhatsApp credentials,
\* the send succeeds and the store takes the record
ConfirmationStoredWhenSent ==
    (/\ out.op = "webhook" /\ out.meeting.is_meeting
     /\ out.request.creds
     /\ out.request.sendOutcome = "ok" /\ out.request.addReplyOutcome = "ok") =>
        /\ out.meeting.created \/ out.meeting.link = FallbackLink
        /\ Truthy(out.meeting.confirmation)
        /\ StoredReplies(out.meeting.response) # {}
        /\ \E k \in 1..Len(out.sent) : out.sent[k].ok /\ out.sent[k].to = out.request.from

\* a meeting was detected and confirmed with no WhatsApp credentials in the
\* settings: nothing but the inbound message is in the store
ConfirmedWithoutCredentials ==
    /\ out.op = "webhook" /\ out.meeting.is_meeting
    /\ ~out.request.creds
    /\ Len(out.appended) = 1
    /\ StoredReplies(out.meeting.response) = {}

\* auto-reply is off for the request: globally, or for its sender
AutoReplyOff ==
    \/ ~out.request.auto_reply_enabled
    \/ DisabledFor(out.request.contact_auto_reply_settings, out.request.from)

\* record k the request appended is the inbound message
IsInboundRecord(k) ==
    /\ out.appended[k].contact_id = out.request.from
    /\ out.appended[k].sender = out.request.from
    /\ out.appended[k].text = out.request.text

ReplySent == \E k \in 1..Len(out.sent) : out.sent[k].ok

\* C30: with auto-reply disabled globally or for the sender,
\* process_incoming_message sends nothing and appends exactly one record,
\* the inbound message; with auto-reply enabled and the reply sent, it
\* appends exactly two records, the inbound message before the reply.
C30_AutoReplyRecords ==
    out.op = "auto_reply" =>
        /\ AutoReplyOff =>
              /\ out.sent = <<>>
              /\ Len(out.appended) = 1
              /\ IsInboundRecord(1)
        /\ (~AutoReplyOff /\ ReplySent) =>
              /\ Len(out.appended) = 2
              /\ IsInboundRecord(1)
              /\ StoredReplies(out.sent[1].text) = {2}

\* the same when the store takes every record
AutoReplyRecordsWhenStored ==
    (/\ out.op = "auto_reply"
     /\ out.request.addOutcome = "ok" /\ out.request.addReplyOutcome = "ok") =>
        /\ AutoReplyOff =>
              /\ out.sent = <<>>
              /\ Len(out.appended) = 1
              /\ IsInboundRecord(1)
        /\ (~AutoReplyOff /\ ReplySent) =>
              /\ Len(out.appended) = 2
              /\ IsInboundRecord(1)
              /\ StoredReplies(out.sent[1].text) = {2}

\* auto-reply is off and nothing is sent, whatever the store does
NothingSentWhenOff ==
    (out.op = "auto_reply" /\ AutoReplyOff) =>
        /\ out.sent = <<>>
        /\ Len(out.appended) <= 1

\* the reply went out and the store refused its record
SentButNotStored ==
    /\ out.op = "auto_reply"
    /\ ~AutoReplyOff /\ ReplySent
    /\ out.request.addOutcome = "ok"
    /\ Len(out.appended) = 1
    /\ ~out.ret.success

=============================================================================
